---- MODULE Spec2Model ----
(***************************************************************************)
(* A model of the tui-additions framework: the grid (State), the derived   *)
(* selectables index, the cursor state machine (CursorState), the two-tier *)
(* context store (FrameworkData), the history stack and the operations of  *)
(* Framework that act on them.                                             *)
(*                                                                         *)
(* Coordinates are 0-based as in the source; a TLA+ sequence is 1-based,   *)
(* so the element at index i of a Vec v is v[i + 1].                       *)
(***************************************************************************)
EXTENDS Integers, Sequences, FiniteSets, TLC

VARIABLES
    selectables,  \* Framework.selectables : Vec<Vec<(usize, usize)>>
    data,         \* Framework.data        : [global, state]
    state,        \* Framework.state       : the grid, a Vec<Row>
    cursor,       \* Framework.cursor      : CursorState
    history,      \* Framework.history     : Vec<FrameworkHistory>
    frame_area,   \* Framework.frame_area  : Option<Rect>
    op,           \* the public operation the host has just called, with its
                  \* arguments ("idle" once the host has taken the result)
    ret,          \* what that call returned (or "Panic" when it aborted)
    calls,        \* the item hooks that call invoked, in order
    log,          \* the calls made so far and their results (kept by SpecScenario only)
    pushed,       \* the live state the last push_history saw, while no other
                  \* history operation has been called since (else None)
    before,       \* the cursor as it was when the call in op was made
    widget        \* a widget of the widgets module (a Grid or a TextList) the
                  \* host owns beside the framework, None when it owns none

vars == <<selectables, data, state, cursor, history, frame_area, op, ret, calls,
          log, pushed, before, widget>>

fw == <<selectables, data, state, cursor, history, frame_area>>

-----------------------------------------------------------------------------
(* Bounds of the model                                                     *)

MaxRows == 2        \* rows of a grid drawn by SpecMove
MaxCols == 2        \* items of a row drawn by SpecMove
MaxHistory == 1     \* push_history is not called on a longer stack
MaxLog == 5         \* operations recorded by SpecScenario
MaxStack == 3
MaxCopies == 2
MaxLocs == 2
MaxWidth == 4
MaxConstraints == 2
MaxLength == 7
MaxItems == 5
MaxHeight == 4

\* usize::MAX, the column/row a move from None enters at; any number above
\* every index of the model behaves the same under move_check.
UsizeMax == 2147483647

U16 == 65536

ItemVals == {0, 1}      \* abstract internal state of an item
StoreVals == {0, 1}     \* abstract content of one tier of the context store

-----------------------------------------------------------------------------
(* Small helpers                                                           *)

Min(a, b) == IF a < b THEN a ELSE b

Max(a, b) == IF a > b THEN a ELSE b

RECURSIVE SumSeq(_)
SumSeq(s) == IF s = <<>> THEN 0 ELSE Head(s) + SumSeq(Tail(s))

RECURSIVE FlattenSeq(_)
FlattenSeq(ss) == IF ss = <<>> THEN <<>> ELSE Head(ss) \o FlattenSeq(Tail(ss))

SeqsUpTo(S, n) == UNION {[1..k -> S] : k \in 0..n}

-----------------------------------------------------------------------------
(* The grid: State, Row, RowItem                                           *)

\* A FrameworkItem: whether it reports selectable, and its internal state.
Item(sel, v) == [selectable |-> sel, val |-> v]

\* RowItem { item, width }, the width a Constraint::Length.
RowItem(sel, w) == [item |-> Item(sel, 0), width |-> w]

\* Row { items, centered, height }, the height a Constraint::Length.
Row(items, centered, h) == [items |-> items, centered |-> centered, height |-> h]

\* The grid has a slot at column x of row y
HasSlot(st, x, y) == y < Len(st) /\ x < Len(st[y + 1].items)

\* State::get
get(st, x, y) == st[y + 1].items[x + 1].item

\* State::get_mut followed by a write of the item
set_item(st, x, y, it) == [st EXCEPT ![y + 1].items[x + 1].item = it]

\* The (x, y) pairs of all the items of row y, selectable or not
RECURSIVE row_selectables_all(_, _, _)
row_selectables_all(items, x, y) ==
    IF x >= Len(items) THEN <<>>
    ELSE << <<x, y>> >> \o row_selectables_all(items, x + 1, y)

\* The (x, y) pairs of the selectable items of row y (0-based), left to right.
RECURSIVE row_selectables(_, _, _)
row_selectables(items, x, y) ==
    IF x >= Len(items) THEN <<>>
    ELSE (IF items[x + 1].item.selectable THEN << <<x, y>> >> ELSE <<>>)
         \o row_selectables(items, x + 1, y)

\* State::selectables without `if !row_selectables.is_empty()`
RECURSIVE selectables_from_keeps_empty(_, _)
selectables_from_keeps_empty(st, y) ==
    IF y >= Len(st) THEN <<>>
    ELSE <<row_selectables(st[y + 1].items, 0, y)>> \o selectables_from_keeps_empty(st, y + 1)

\* State::selectables: one index row per grid row that has a selectable item
RECURSIVE selectables_from(_, _)
selectables_from(st, y) ==
    IF y >= Len(st) THEN <<>>
    ELSE LET rs == row_selectables(st[y + 1].items, 0, y)
         IN  (IF rs # <<>> THEN <<rs>> ELSE <<>>) \o selectables_from(st, y + 1)

\* State::selectables
State_selectables(st) == selectables_from(st, 0)

-----------------------------------------------------------------------------
(* CursorState                                                             *)

CNone == [kind |-> "None", x |-> 0, y |-> 0]

Hover(x, y) == [kind |-> "Hover", x |-> x, y |-> y]

Selected(x, y) == [kind |-> "Selected", x |-> x, y |-> y]

Directions == {"Up", "Down", "Left", "Right"}

\* The result of a CursorState method: the cursor afterwards and Ok or the error.
Res(c, e) == [cursor |-> c, err |-> e]

\* CursorState::select with the coordinates swapped
CursorState_select_swapped(c) ==
    IF c.kind = "Hover" THEN Res(Selected(c.y, c.x), "Ok")
    ELSE Res(c, "CursorStateMismatch")

\* CursorState::select
CursorState_select(c) ==
    IF c.kind = "Hover" THEN Res(Selected(c.x, c.y), "Ok")
    ELSE Res(c, "CursorStateMismatch")

\* CursorState::deselect dropping the position
CursorState_deselect_to_none(c) ==
    IF c.kind = "Selected" THEN Res(CNone, "Ok")
    ELSE Res(c, "CursorStateMismatch")

\* CursorState::deselect
CursorState_deselect(c) ==
    IF c.kind = "Selected" THEN Res(Hover(c.x, c.y), "Ok")
    ELSE Res(c, "CursorStateMismatch")

\* selectables[location_y][location_x] is in range
InRange(sel, x, y) == y < Len(sel) /\ x < Len(sel[y + 1])

\* CursorState::selectables_to_coors; the source indexes without a check, so
\* it aborts exactly when ~InRange (see hover_panics, selected_panics).
selectables_to_coors(sel, x, y) == sel[y + 1][x + 1]

\* CursorState::hover as an Option: <<>> is None, << <<x, y>> >> is Some((x, y))
CursorState_hover(c, sel) ==
    IF c.kind = "Hover" /\ sel # <<>> THEN <<selectables_to_coors(sel, c.x, c.y)>>
    ELSE <<>>

\* CursorState::hover aborts with an index out of range
hover_panics(c, sel) == c.kind = "Hover" /\ sel # <<>> /\ ~InRange(sel, c.x, c.y)

\* CursorState::selected without the lookup in the index
CursorState_selected_raw(c, sel) ==
    IF c.kind = "Selected" /\ sel # <<>> THEN << <<c.x, c.y>> >> ELSE <<>>

\* CursorState::selected as an Option
CursorState_selected(c, sel) ==
    IF c.kind = "Selected" /\ sel # <<>> THEN <<selectables_to_coors(sel, c.x, c.y)>>
    ELSE <<>>

\* CursorState::selected aborts with an index out of range
selected_panics(c, sel) == c.kind = "Selected" /\ sel # <<>> /\ ~InRange(sel, c.x, c.y)

\* CursorState::left without the `if *x != 0`
CursorState_left_unsaturated(c) ==
    CASE c.kind = "Hover" -> Res(Hover(c.x - 1, c.y), "Ok")
      [] c.kind = "None" -> Res(Hover(0, 0), "Ok")
      [] c.kind = "Selected" -> Res(c, "MoveSelected")

\* CursorState::left
CursorState_left(c) ==
    CASE c.kind = "Hover" -> Res(IF c.x # 0 THEN Hover(c.x - 1, c.y) ELSE c, "Ok")
      [] c.kind = "None" -> Res(Hover(0, 0), "Ok")
      [] c.kind = "Selected" -> Res(c, "MoveSelected")

\* CursorState::right entering at the origin like left
CursorState_right_from_origin(c) ==
    CASE c.kind = "Hover" -> Res(Hover(c.x + 1, c.y), "Ok")
      [] c.kind = "None" -> Res(Hover(0, 0), "Ok")
      [] c.kind = "Selected" -> Res(c, "MoveSelected")

\* CursorState::right
CursorState_right(c) ==
    CASE c.kind = "Hover" -> Res(Hover(c.x + 1, c.y), "Ok")
      [] c.kind = "None" -> Res(Hover(UsizeMax, 0), "Ok")
      [] c.kind = "Selected" -> Res(c, "MoveSelected")

\* CursorState::up treating Selected like Hover
CursorState_up_unlocked(c) ==
    CASE c.kind \in {"Hover", "Selected"} ->
             Res(IF c.y # 0 THEN Hover(c.x, c.y - 1) ELSE Hover(c.x, c.y), "Ok")
      [] c.kind = "None" -> Res(Hover(0, 0), "Ok")

\* CursorState::up
CursorState_up(c) ==
    CASE c.kind = "Hover" -> Res(IF c.y # 0 THEN Hover(c.x, c.y - 1) ELSE c, "Ok")
      [] c.kind = "None" -> Res(Hover(0, 0), "Ok")
      [] c.kind = "Selected" -> Res(c, "MoveSelected")

\* CursorState::down with the `if *y != 0` guard of up
CursorState_down_guarded(c) ==
    CASE c.kind = "Hover" -> Res(IF c.y # 0 THEN Hover(c.x, c.y + 1) ELSE c, "Ok")
      [] c.kind = "None" -> Res(Hover(0, UsizeMax), "Ok")
      [] c.kind = "Selected" -> Res(c, "MoveSelected")

\* CursorState::down
CursorState_down(c) ==
    CASE c.kind = "Hover" -> Res(Hover(c.x, c.y + 1), "Ok")
      [] c.kind = "None" -> Res(Hover(0, UsizeMax), "Ok")
      [] c.kind = "Selected" -> Res(c, "MoveSelected")

\* CursorState::move_check without the clamp of x
move_check_no_x_clamp(c, sel) ==
    IF sel = <<>> THEN Hover(0, 0)
    ELSE LET y_max == Len(sel) - 1
             y == IF c.y > y_max THEN y_max ELSE c.y
         IN  Hover(c.x, y)

\* CursorState::move_check without the reset on an empty index
move_check_no_reset(c, sel) ==
    IF sel = <<>> THEN c
    ELSE LET y_max == Len(sel) - 1
             y == IF c.y > y_max THEN y_max ELSE c.y
             x_max == Len(sel[y + 1]) - 1
             x == IF c.x > x_max THEN x_max ELSE c.x
         IN  Hover(x, y)

\* CursorState::move_check, called on a Hover cursor only
move_check(c, sel) ==
    IF sel = <<>> THEN Hover(0, 0)
    ELSE LET y_max == Len(sel) - 1
             y == IF c.y > y_max THEN y_max ELSE c.y
             x_max == Len(sel[y + 1]) - 1
             x == IF c.x > x_max THEN x_max ELSE c.x
         IN  Hover(x, y)

\* CursorState::move: the directional step, `?`, then move_check
CursorState_move(c, d, sel) ==
    LET r == CASE d = "Up" -> CursorState_up(c)
               [] d = "Down" -> CursorState_down(c)
               [] d = "Left" -> CursorState_left(c)
               [] d = "Right" -> CursorState_right(c)
    IN  IF r.err # "Ok" THEN r ELSE Res(move_check(r.cursor, sel), "Ok")

-----------------------------------------------------------------------------
(* Layout: Rect and State::get_chunks                                      *)

Rect(x, y, w, h) == [x |-> x, y |-> y, width |-> w, height |-> h]

\* Rect::intersects
intersects(a, b) ==
    /\ a.x < b.x + b.width
    /\ a.x + a.width > b.x
    /\ a.y < b.y + b.height
    /\ a.y + a.height > b.y

\* Constraint::Length(l).apply(length)
apply(l, length) == Min(l, length)

\* Layout::split over a span of `total` cells starting at `pos`, every
\* constraint a Length: the bands follow one another from the start of the
\* span, each as long as its constraint asks, cut off at the end of the span.
RECURSIVE LayoutSplit(_, _, _)
LayoutSplit(lens, pos, total) ==
    IF lens = <<>> THEN <<>>
    ELSE LET l == Min(Head(lens), total)
         IN  <<[pos |-> pos, len |-> l]>> \o LayoutSplit(Tail(lens), pos + l, total - l)

\* skip(1).take(n) of the bands of `n + 2` constraints
Middle(bands) == SubSeq(bands, 2, Len(bands) - 1)

widths(row) == [i \in 1..Len(row.items) |-> row.items[i].width]

applied_widths(row, area) ==
    [i \in 1..Len(row.items) |-> apply(row.items[i].width, area.width)]

\* area.width - sum of the applied widths is below 0: the u16 subtraction
\* aborts in a build with overflow checks and wraps around in one without.
begin_underflows(row, area) ==
    row.centered /\ SumSeq(applied_widths(row, area)) > area.width

\* begin_length rounding the half up
begin_length_ceil(row, area) ==
    IF row.centered
    THEN ((area.width - SumSeq(applied_widths(row, area)) + 1) % U16) \div 2
    ELSE 0

\* begin_length of State::get_chunks, in u16 arithmetic (wrapping)
begin_length(row, area) ==
    IF row.centered
    THEN ((area.width - SumSeq(applied_widths(row, area))) % U16) \div 2
    ELSE 0

get_chunks_underflows(st, area) ==
    \E i \in 1..Len(st) : begin_underflows(st[i], area)

\* State::get_chunks: one Rect per item, row by row
get_chunks(st, area) ==
    LET heights == [i \in 1..Len(st) |-> st[i].height]
        bands == Middle(LayoutSplit(<<0>> \o heights \o <<0>>, area.y, area.height))
        row_chunks(i) ==
            LET cs == <<begin_length(st[i], area)>> \o widths(st[i]) \o <<0>>
                cols == Middle(LayoutSplit(cs, area.x, area.width))
            IN  [j \in 1..Len(cols) |->
                    Rect(cols[j].pos, bands[i].pos, cols[j].len, bands[i].len)]
    IN  [i \in 1..Len(st) |-> row_chunks(i)]

-----------------------------------------------------------------------------
(* Item hooks                                                              *)

\* What one invocation of an item hook (&mut self) does: the value it returns
\* (accept / handled / Ok as TRUE) and the internal state it leaves the item in.
HookOutcomes == [accept : BOOLEAN, val : ItemVals]

\* One recorded hook invocation on the item at (x, y) of the grid: the
\* arguments it got and what it returned (accept / handled / Ok as TRUE).
Call(hook, x, y, args, result) ==
    [hook |-> hook, x |-> x, y |-> y, args |-> args, result |-> result]

\* ItemInfo whose hover flag is also set for the selected item
ItemInfo_hover_too(selected, hover, x, y) ==
    [selected |-> selected, hover |-> selected \/ hover, x |-> x, y |-> y]

\* ItemInfo { selected, hover, x, y }
ItemInfo(selected, hover, x, y) == [selected |-> selected, hover |-> hover, x |-> x, y |-> y]

\* A hook that, holding the whole grid, leaves every item of row y in state v
touch_row(st, x, y, v) ==
    [st EXCEPT ![y + 1].items =
        [j \in 1..Len(st[y + 1].items) |->
            [st[y + 1].items[j] EXCEPT !.item.val = v]]]

\* The item at (x, y) after a hook left it in internal state v
touch(st, x, y, v) == set_item(st, x, y, [get(st, x, y) EXCEPT !.val = v])

\* What a Framework method did: the grid and cursor afterwards, the value
\* returned (or "Panic") and the hooks invoked.
Eff(st, c, r, cs) == [state |-> st, cursor |-> c, ret |-> r, calls |-> cs]

Some(v) == <<v>>

None == <<>>

Ret(tag) == [tag |-> tag, val |-> None]

RetVal(tag, v) == [tag |-> tag, val |-> Some(v)]

-----------------------------------------------------------------------------
(* Framework::select, Framework::deselect, Framework::mouse_event as       *)
(* functions of the grid, the cursor, the selectables and the hook outcome *)

\* Framework::select
Framework_select(st, c, sel, h) ==
    IF hover_panics(c, sel) THEN Eff(st, c, "Panic", <<>>)
    ELSE LET hv == CursorState_hover(c, sel)
         IN  IF hv = None THEN Eff(st, c, "CursorStateMismatch", <<>>)
             ELSE LET x == hv[1][1]
                      y == hv[1][2]
                      r == IF h.accept THEN CursorState_select(c) ELSE Res(c, "Ok")
                  IN  Eff(touch(st, x, y, h.val), r.cursor, r.err,
                          <<Call("select", x, y, <<>>, h.accept)>>)

\* Framework::deselect without the `if item.deselect(..)`
Framework_deselect_ignores_hook(st, c, sel, h) ==
    IF selected_panics(c, sel) THEN Eff(st, c, "Panic", <<>>)
    ELSE LET sd == CursorState_selected(c, sel)
         IN  IF sd = None THEN Eff(st, c, "CursorStateMismatch", <<>>)
             ELSE LET x == sd[1][1]
                      y == sd[1][2]
                      r == CursorState_deselect(c)
                  IN  Eff(touch(st, x, y, h.val), r.cursor, r.err,
                          <<Call("deselect", x, y, <<>>, h.accept)>>)

\* Framework::deselect
Framework_deselect(st, c, sel, h) ==
    IF selected_panics(c, sel) THEN Eff(st, c, "Panic", <<>>)
    ELSE LET sd == CursorState_selected(c, sel)
         IN  IF sd = None THEN Eff(st, c, "CursorStateMismatch", <<>>)
             ELSE LET x == sd[1][1]
                      y == sd[1][2]
                      r == IF h.accept THEN CursorState_deselect(c) ELSE Res(c, "Ok")
                  IN  Eff(touch(st, x, y, h.val), r.cursor, r.err,
                          <<Call("deselect", x, y, <<>>, h.accept)>>)

\* The positions <<col_no, row_no>> of the selectables index in the order the
\* loops of mouse_event visit them.
RECURSIVE index_positions(_, _, _)
index_positions(sel, row_no, col_no) ==
    IF row_no >= Len(sel) THEN <<>>
    ELSE IF col_no >= Len(sel[row_no + 1]) THEN index_positions(sel, row_no + 1, 0)
    ELSE << <<col_no, row_no>> >> \o index_positions(sel, row_no, col_no + 1)

\* The first position of the index whose chunk the click intersects, as an Option
first_hit(sel, chunks, col, row) ==
    LET hit(p) == LET xy == sel[p[2] + 1][p[1] + 1]
                  IN  intersects(chunks[xy[2] + 1][xy[1] + 1], Rect(col, row, 1, 1))
        hits == SelectSeq(index_positions(sel, 0, 0), hit)
    IN  IF hits = <<>> THEN None ELSE Some(hits[1])

\* Framework::mouse_event once the chunks are known
mouse_event_on(st, c, sel, chunks, col, row, h) ==
    LET fh == first_hit(sel, chunks, col, row)
    IN  IF fh = None
        THEN \* the click is on no selectable item
             LET d == Framework_deselect(st, c, sel, h)
             IN  IF d.ret = "Panic" THEN d
                 ELSE Eff(d.state, CNone, "true", d.calls)
        ELSE LET col_no == fh[1][1]
                 row_no == fh[1][2]
                 x == sel[row_no + 1][col_no + 1][1]
                 y == sel[row_no + 1][col_no + 1][2]
                 chunk == chunks[y + 1][x + 1]
             IN  IF selected_panics(c, sel) THEN Eff(st, c, "Panic", <<>>)
                 ELSE IF CursorState_selected(c, sel) = Some(<<col_no, row_no>>)
                 THEN Eff(touch(st, x, y, h.val), c,
                          IF h.accept THEN "true" ELSE "false",
                          <<Call("mouse_event", x, y,
                                 <<col - chunk.x, row - chunk.y, col, row>>, h.accept)>>)
                 ELSE IF hover_panics(c, sel) THEN Eff(st, c, "Panic", <<>>)
                 ELSE IF CursorState_hover(c, sel) = Some(<<col_no, row_no>>)
                 THEN LET s == Framework_select(st, c, sel, h)
                      IN  Eff(s.state, s.cursor,
                              IF s.ret = "Ok" THEN "true" ELSE "false", s.calls)
                 ELSE LET d == Framework_deselect(st, c, sel, h)
                      IN  IF d.ret = "Panic" THEN d
                          ELSE Eff(d.state, Hover(col_no, row_no), "true", d.calls)

-----------------------------------------------------------------------------
(* The inputs of the model                                                 *)

S2 == RowItem(TRUE, 2)      \* a selectable item two cells wide

U1 == RowItem(FALSE, 1)     \* an unselectable item one cell wide

\* row 0 = two selectable items, row 1 = one selectable item (centered)
GridA == <<Row(<<S2, S2>>, FALSE, 1), Row(<<S2>>, TRUE, 1)>>

\* one row, an unselectable item before a selectable one: the index is
\* compacted, index position (0, 0) is grid position (1, 0)
GridB == <<Row(<<U1, S2>>, FALSE, 1)>>

\* no selectable item: the index is empty
GridC == <<Row(<<U1>>, FALSE, 1)>>

Grids == {GridA, GridB, GridC}

S1 == RowItem(TRUE, 1)      \* a selectable item one cell wide

\* one row, an unselectable item before two selectable ones: index position
\* (0, 0) is grid position (1, 0), index position (1, 0) is grid position (2, 0)
GridD == <<Row(<<U1, S1, S2>>, FALSE, 1)>>

\* The grids of SpecMouse
MGrids == {GridA, GridB, GridD}

\* The grids of SpecHistory
HGrids == {GridB, GridC}

\* The frame area render is called with (the whole terminal); every grid fits.
Areas == {Rect(0, 0, 4, 2)}

\* The cells of the terminal a mouse click is reported at
Clicks == (0..3) \X (0..1)

\* The clicks of SpecHistory: on the unselectable and on the selectable item of GridB
HClicks == {<<0, 0>>, <<1, 0>>}

\* Every grid of at most MaxRows rows of at most MaxCols items (SpecMove)
AllRows == {Row(items, FALSE, 1) : items \in SeqsUpTo({S2, U1}, MaxCols)}

AllGrids == SeqsUpTo(AllRows, MaxRows)

-----------------------------------------------------------------------------
(* Framework: construction and operations                                  *)

\* FrameworkData::default as the abstract content of the two tiers
FrameworkData_default == [global |-> 0, state |-> 0]

Op(name, args) == [name |-> name, args |-> args]

\* Framework::new with an empty frame area in place of None
New_with_area(st) ==
    /\ selectables = State_selectables(st)
    /\ data = FrameworkData_default
    /\ state = st
    /\ frame_area = Some(Rect(0, 0, 0, 0))
    /\ cursor = CNone
    /\ history = <<>>
    /\ op = Op("new", <<>>)
    /\ ret = Ret("Ok")
    /\ calls = <<>>

\* Framework::new(st)
New(st) ==
    /\ selectables = State_selectables(st)
    /\ data = FrameworkData_default
    /\ state = st
    /\ frame_area = None
    /\ cursor = CNone
    /\ history = <<>>
    /\ op = Op("new", <<>>)
    /\ ret = Ret("Ok")
    /\ calls = <<>>

\* Framework::set_state with history entries that hold the live grid by
\* reference instead of a clone of it
SetState_shared(g) ==
    /\ state' = g
    /\ selectables' = State_selectables(g)
    /\ history' = [k \in 1..Len(history) |->
                      IF history[k].state = state
                      THEN [history[k] EXCEPT !.state = g] ELSE history[k]]
    /\ op' = Op("set_state", <<g>>)
    /\ ret' = Ret("Ok")
    /\ calls' = <<>>
    /\ UNCHANGED <<data, cursor, frame_area>>

\* Framework::set_state starting the new grid with a clean cursor
SetState_resets_cursor(g) ==
    /\ state' = g
    /\ selectables' = State_selectables(g)
    /\ cursor' = CNone
    /\ op' = Op("set_state", <<g>>)
    /\ ret' = Ret("Ok")
    /\ calls' = <<>>
    /\ UNCHANGED <<data, history, frame_area>>

\* Framework::set_state(g)
SetState(g) ==
    /\ state' = g
    /\ selectables' = State_selectables(g)
    /\ op' = Op("set_state", <<g>>)
    /\ ret' = Ret("Ok")
    /\ calls' = <<>>
    /\ UNCHANGED <<data, cursor, history, frame_area>>

\* Framework::move saving the state before it moves
Move_autosave(d) ==
    LET r == CursorState_move(cursor, d, selectables)
    IN  /\ history' = Append(history, [selectables |-> selectables, data |-> data.state,
                                       state |-> state, cursor |-> cursor])
        /\ cursor' = r.cursor
        /\ op' = Op("move", <<d>>)
        /\ ret' = Ret(r.err)
        /\ calls' = <<>>
        /\ UNCHANGED <<selectables, data, state, frame_area>>

\* Framework::move(d)
Move(d) ==
    LET r == CursorState_move(cursor, d, selectables)
    IN  /\ cursor' = r.cursor
        /\ op' = Op("move", <<d>>)
        /\ ret' = Ret(r.err)
        /\ calls' = <<>>
        /\ UNCHANGED <<selectables, data, state, history, frame_area>>

\* Framework::select(), the hovered item's hook doing h
Select(h) ==
    LET e == Framework_select(state, cursor, selectables, h)
    IN  /\ state' = e.state
        /\ cursor' = e.cursor
        /\ op' = Op("select", <<>>)
        /\ ret' = Ret(e.ret)
        /\ calls' = e.calls
        /\ UNCHANGED <<selectables, data, history, frame_area>>

\* Framework::deselect(), the selected item's hook doing h
Deselect(h) ==
    LET e == Framework_deselect(state, cursor, selectables, h)
    IN  /\ state' = e.state
        /\ cursor' = e.cursor
        /\ op' = Op("deselect", <<>>)
        /\ ret' = Ret(e.ret)
        /\ calls' = e.calls
        /\ UNCHANGED <<selectables, data, history, frame_area>>

\* Framework::mouse_event(col, row), the hook it reaches (if any) doing h.
\* Where the u16 subtraction of get_chunks goes below 0 the call aborts (a
\* build with overflow checks) or goes on with the wrapped value (one without).
MouseEvent(col, row, h) ==
    /\ op' = Op("mouse_event", <<col, row>>)
    /\ UNCHANGED <<selectables, data, history, frame_area>>
    /\ IF frame_area = None
       THEN /\ ret' = Ret("false")
            /\ calls' = <<>>
            /\ UNCHANGED <<state, cursor>>
       ELSE \/ /\ get_chunks_underflows(state, frame_area[1])
               /\ ret' = Ret("Panic")
               /\ calls' = <<>>
               /\ UNCHANGED <<state, cursor>>
            \/ LET e == mouse_event_on(state, cursor, selectables,
                                       get_chunks(state, frame_area[1]), col, row, h)
               IN  /\ state' = e.state
                   /\ cursor' = e.cursor
                   /\ ret' = Ret(e.ret)
                   /\ calls' = e.calls

\* The grid positions <<x, y>> in the order render_raw and load visit them
RECURSIVE grid_positions(_, _, _)
grid_positions(st, y, x) ==
    IF y >= Len(st) THEN <<>>
    ELSE IF x >= Len(st[y + 1].items) THEN grid_positions(st, y + 1, 0)
    ELSE << <<x, y>> >> \o grid_positions(st, y, x + 1)

\* The grid after the hooks left the item at the k-th position in state vs[k]
RECURSIVE touch_all(_, _, _)
touch_all(st, ps, vs) ==
    IF ps = <<>> THEN st
    ELSE touch_all(touch(st, Head(ps)[1], Head(ps)[2], Head(vs)), Tail(ps), Tail(vs))

\* Framework::render_raw whose popup pass visits the selected item only
render_raw_popup_selected_only(st, chunks, selected, hover, popup_render) ==
    LET ps == grid_positions(st, 0, 0)
        all == [k \in 1..Len(ps) |->
                   LET x == ps[k][1]
                       y == ps[k][2]
                   IN  Call("render", x, y,
                            <<chunks[y + 1][x + 1], popup_render,
                              ItemInfo(Some(<<x, y>>) = selected, Some(<<x, y>>) = hover, x, y)>>,
                            TRUE)]
        OfSelected(c) == c.args[3].selected
    IN  IF popup_render THEN SelectSeq(all, OfSelected) ELSE all

\* Framework::render_raw: the render hooks it invokes, in order
render_raw(st, chunks, selected, hover, popup_render) ==
    LET ps == grid_positions(st, 0, 0)
    IN  [k \in 1..Len(ps) |->
            LET x == ps[k][1]
                y == ps[k][2]
            IN  Call("render", x, y,
                     <<chunks[y + 1][x + 1], popup_render,
                       ItemInfo(Some(<<x, y>>) = selected, Some(<<x, y>>) = hover, x, y)>>,
                     TRUE)]

\* Framework::render on a frame of area `area`; the render hooks leave the
\* items in the internal states vs (one per grid position).
Render(area, vs) ==
    /\ op' = Op("render", <<area>>)
    /\ frame_area' = Some(area)
    /\ UNCHANGED <<selectables, data, cursor, history>>
    /\ \/ /\ \/ get_chunks_underflows(state, area)
             \/ selected_panics(cursor, selectables)
             \/ hover_panics(cursor, selectables)
          /\ ret' = Ret("Panic")
          /\ calls' = <<>>
          /\ UNCHANGED state
       \/ /\ ~selected_panics(cursor, selectables)
          /\ ~hover_panics(cursor, selectables)
          /\ LET chunks == get_chunks(state, area)
                 selected == CursorState_selected(cursor, selectables)
                 hover == CursorState_hover(cursor, selectables)
             IN  /\ calls' = render_raw(state, chunks, selected, hover, FALSE)
                             \o render_raw(state, chunks, selected, hover, TRUE)
                 /\ state' = touch_all(state, grid_positions(state, 0, 0), vs)
                 /\ ret' = Ret("Ok")

\* Framework::key_input(key), the selected item's key_event hook doing h
KeyInput(h) ==
    /\ op' = Op("key_input", <<>>)
    /\ UNCHANGED <<selectables, data, cursor, history, frame_area>>
    /\ IF selected_panics(cursor, selectables)
       THEN /\ ret' = Ret("Panic")
            /\ calls' = <<>>
            /\ UNCHANGED state
       ELSE LET sd == CursorState_selected(cursor, selectables)
            IN  IF sd = None
                THEN /\ ret' = Ret("Ok")
                     /\ calls' = <<>>
                     /\ UNCHANGED state
                ELSE LET x == sd[1][1]
                         y == sd[1][2]
                     IN  /\ state' = touch(state, x, y, h.val)
                         /\ calls' = <<Call("key_event", x, y,
                                            <<ItemInfo(TRUE, FALSE, x, y)>>, h.accept)>>
                         /\ ret' = Ret(IF h.accept THEN "Ok" ELSE "HookError")

\* Framework::load: the load_item hooks it invokes, in order, up to the n-th
load_calls(st, selected, hover, n, failed) ==
    LET ps == grid_positions(st, 0, 0)
    IN  [k \in 1..n |->
            LET x == ps[k][1]
                y == ps[k][2]
            IN  Call("load_item", x, y,
                     <<ItemInfo(Some(<<x, y>>) = selected, Some(<<x, y>>) = hover, x, y)>>,
                     k # failed)]

\* Framework::load going on after a load_item hook returned an error
Load_continues(vs, failed) ==
    /\ op' = Op("load", <<>>)
    /\ UNCHANGED <<selectables, data, cursor, history, frame_area>>
    /\ IF selected_panics(cursor, selectables) \/ hover_panics(cursor, selectables)
       THEN /\ ret' = Ret("Panic")
            /\ calls' = <<>>
            /\ UNCHANGED state
       ELSE LET ps == grid_positions(state, 0, 0)
                selected == CursorState_selected(cursor, selectables)
                hover == CursorState_hover(cursor, selectables)
            IN  /\ calls' = load_calls(state, selected, hover, Len(ps), failed)
                /\ state' = touch_all(state, ps, vs)
                /\ ret' = Ret(IF failed = 0 THEN "Ok" ELSE "HookError")

\* Framework::load; the load_item hooks leave the items in the internal states
\* vs, and the hook of the item at position `failed` returns an error (none
\* does when failed = 0), which ends the loop.
Load(vs, failed) ==
    /\ op' = Op("load", <<>>)
    /\ UNCHANGED <<selectables, data, cursor, history, frame_area>>
    /\ IF selected_panics(cursor, selectables) \/ hover_panics(cursor, selectables)
       THEN /\ ret' = Ret("Panic")
            /\ calls' = <<>>
            /\ UNCHANGED state
       ELSE LET ps == grid_positions(state, 0, 0)
                n == IF failed = 0 THEN Len(ps) ELSE failed
                selected == CursorState_selected(cursor, selectables)
                hover == CursorState_hover(cursor, selectables)
            IN  /\ calls' = load_calls(state, selected, hover, n, failed)
                /\ state' = touch_all(state, SubSeq(ps, 1, n), SubSeq(vs, 1, n))
                /\ ret' = Ret(IF failed = 0 THEN "Ok" ELSE "HookError")

\* Framework::load_only(x, y), the item's load_item hook doing h; State::get_mut
\* indexes the grid without a check.
LoadOnly(x, y, h) ==
    /\ op' = Op("load_only", <<x, y>>)
    /\ UNCHANGED <<selectables, data, cursor, history, frame_area>>
    /\ IF \/ selected_panics(cursor, selectables)
          \/ hover_panics(cursor, selectables)
          \/ ~HasSlot(state, x, y)
       THEN /\ ret' = Ret("Panic")
            /\ calls' = <<>>
            /\ UNCHANGED state
       ELSE LET selected == CursorState_selected(cursor, selectables)
                hover == CursorState_hover(cursor, selectables)
            IN  /\ calls' = <<Call("load_item", x, y,
                                   <<ItemInfo(Some(<<x, y>>) = selected,
                                              Some(<<x, y>>) = hover, x, y)>>,
                                   h.accept)>>
                /\ state' = touch(state, x, y, h.val)
                /\ ret' = Ret(IF h.accept THEN "Ok" ELSE "HookError")

\* Framework::load_only_multiple(locations), the load_item hook of the k-th
\* location doing hs[k]; every location is a slot of the grid.
LoadOnlyMultiple(locations, hs) ==
    /\ op' = Op("load_only_multiple", <<locations>>)
    /\ UNCHANGED <<selectables, data, cursor, history, frame_area>>
    /\ IF selected_panics(cursor, selectables) \/ hover_panics(cursor, selectables)
       THEN /\ ret' = Ret("Panic")
            /\ calls' = <<>>
            /\ UNCHANGED state
       ELSE LET selected == CursorState_selected(cursor, selectables)
                hover == CursorState_hover(cursor, selectables)
            IN  /\ calls' = [k \in 1..Len(locations) |->
                                LET x == locations[k][1]
                                    y == locations[k][2]
                                IN  Call("load_item", x, y,
                                         <<ItemInfo(Some(<<x, y>>) = selected,
                                                    Some(<<x, y>>) = hover, x, y)>>,
                                         hs[k].accept)]
                /\ state' = touch_all(state, locations, [k \in 1..Len(locations) |-> hs[k].val])
                /\ ret' = Ret("Ok")

\* The host writes v into tier t of the context store (Framework.data is public)
SetData(t, v) ==
    /\ data' = [data EXCEPT ![t] = v]
    /\ op' = Op("data", <<t, v>>)
    /\ ret' = Ret("Ok")
    /\ calls' = <<>>
    /\ UNCHANGED <<selectables, state, cursor, history, frame_area>>

\* FrameworkHistory { selectables, data, state, cursor }
FrameworkHistory(sel, d, st, c) == [selectables |-> sel, data |-> d, state |-> st, cursor |-> c]

\* Framework::clear_history
ClearHistory ==
    /\ history' = <<>>
    /\ op' = Op("clear_history", <<>>)
    /\ ret' = Ret("Ok")
    /\ calls' = <<>>
    /\ UNCHANGED <<selectables, data, state, cursor, frame_area>>

\* Framework::push_history
PushHistory ==
    /\ history' = Append(history, FrameworkHistory(selectables, data.state, state, cursor))
    /\ op' = Op("push_history", <<>>)
    /\ ret' = Ret("Ok")
    /\ calls' = <<>>
    /\ UNCHANGED <<selectables, data, state, cursor, frame_area>>

\* Vec::pop as (the Vec afterwards, the Option popped)
pop(v) == IF v = <<>> THEN <<v, None>> ELSE <<SubSeq(v, 1, Len(v) - 1), Some(v[Len(v)])>>

\* Vec::swap_remove(index): the last element takes the place of the removed one
swap_remove(v, index) ==
    IF index + 1 = Len(v) THEN SubSeq(v, 1, index)
    ELSE SubSeq(v, 1, index) \o <<v[Len(v)]>> \o SubSeq(v, index + 2, Len(v) - 1)

\* Vec::remove(index), index < len
remove(v, index) == SubSeq(v, 1, index) \o SubSeq(v, index + 2, Len(v))

\* Framework::pop_history
PopHistory ==
    /\ history' = pop(history)[1]
    /\ op' = Op("pop_history", <<>>)
    /\ ret' = [tag |-> IF pop(history)[2] = None THEN "None" ELSE "Some",
               val |-> pop(history)[2]]
    /\ calls' = <<>>
    /\ UNCHANGED <<selectables, data, state, cursor, frame_area>>

\* Framework::revert_last_history without `self.cursor = history.cursor`
RevertLastHistory_keeps_cursor ==
    /\ op' = Op("revert_last_history", <<>>)
    /\ calls' = <<>>
    /\ UNCHANGED <<frame_area, cursor>>
    /\ LET p == pop(history)
       IN  /\ history' = p[1]
           /\ IF p[2] = None
              THEN /\ ret' = Ret("NoSuchSave")
                   /\ UNCHANGED <<selectables, data, state>>
              ELSE /\ selectables' = p[2][1].selectables
                   /\ data' = [data EXCEPT !.state = p[2][1].data]
                   /\ state' = p[2][1].state
                   /\ ret' = Ret("Ok")

\* Framework::revert_last_history restoring a whole default store around the
\* saved per-state tier
RevertLastHistory_resets_global ==
    /\ op' = Op("revert_last_history", <<>>)
    /\ calls' = <<>>
    /\ UNCHANGED frame_area
    /\ LET p == pop(history)
       IN  /\ history' = p[1]
           /\ IF p[2] = None
              THEN /\ ret' = Ret("NoSuchSave")
                   /\ UNCHANGED <<selectables, data, state, cursor>>
              ELSE /\ selectables' = p[2][1].selectables
                   /\ data' = [FrameworkData_default EXCEPT !.state = p[2][1].data]
                   /\ state' = p[2][1].state
                   /\ cursor' = p[2][1].cursor
                   /\ ret' = Ret("Ok")

\* Framework::revert_last_history
RevertLastHistory ==
    /\ op' = Op("revert_last_history", <<>>)
    /\ calls' = <<>>
    /\ UNCHANGED frame_area
    /\ LET p == pop(history)
       IN  /\ history' = p[1]
           /\ IF p[2] = None
              THEN /\ ret' = Ret("NoSuchSave")
                   /\ UNCHANGED <<selectables, data, state, cursor>>
              ELSE /\ selectables' = p[2][1].selectables
                   /\ data' = [data EXCEPT !.state = p[2][1].data]
                   /\ state' = p[2][1].state
                   /\ cursor' = p[2][1].cursor
                   /\ ret' = Ret("Ok")

\* Framework::revert_history with `index > self.history.len()` as its check:
\* Vec::remove(len) aborts
RevertHistory_off_by_one(index) ==
    /\ op' = Op("revert_history", <<index>>)
    /\ calls' = <<>>
    /\ UNCHANGED frame_area
    /\ IF index > Len(history)
       THEN /\ ret' = Ret("NoSuchSave")
            /\ UNCHANGED <<selectables, data, state, cursor, history>>
       ELSE IF index = Len(history)
       THEN /\ ret' = Ret("Panic")
            /\ UNCHANGED <<selectables, data, state, cursor, history>>
       ELSE LET h == history[index + 1]
            IN  /\ history' = remove(history, index)
                /\ selectables' = h.selectables
                /\ data' = [data EXCEPT !.state = h.data]
                /\ state' = h.state
                /\ cursor' = h.cursor
                /\ ret' = Ret("Ok")

\* Framework::revert_history without `self.selectables = history.selectables`
RevertHistory_keeps_selectables(index) ==
    /\ op' = Op("revert_history", <<index>>)
    /\ calls' = <<>>
    /\ UNCHANGED <<frame_area, selectables>>
    /\ IF index >= Len(history)
       THEN /\ ret' = Ret("NoSuchSave")
            /\ UNCHANGED <<data, state, cursor, history>>
       ELSE LET h == history[index + 1]
            IN  /\ history' = remove(history, index)
                /\ data' = [data EXCEPT !.state = h.data]
                /\ state' = h.state
                /\ cursor' = h.cursor
                /\ ret' = Ret("Ok")

\* Framework::revert_history(index)
RevertHistory(index) ==
    /\ op' = Op("revert_history", <<index>>)
    /\ calls' = <<>>
    /\ UNCHANGED frame_area
    /\ IF index >= Len(history)
       THEN /\ ret' = Ret("NoSuchSave")
            /\ UNCHANGED <<selectables, data, state, cursor, history>>
       ELSE LET h == history[index + 1]
            IN  /\ history' = remove(history, index)
                /\ selectables' = h.selectables
                /\ data' = [data EXCEPT !.state = h.data]
                /\ state' = h.state
                /\ cursor' = h.cursor
                /\ ret' = Ret("Ok")

-----------------------------------------------------------------------------
(* Specifications                                                          *)
(*                                                                         *)
(* The host is single-threaded and every operation runs to completion: a   *)
(* step is either one whole call of a public operation, which leaves its   *)
(* result in op, ret and calls, or the host taking that result (Return).   *)

Idle == op.name = "idle"

\* A call that aborted (an index out of range, an arithmetic overflow) ends
\* the program: nothing is called after it.
Aborted == ret.tag = "Panic"

\* The host takes the result of the call and is ready for the next one.
Return ==
    /\ ~Idle
    /\ ~Aborted
    /\ op' = Op("idle", <<>>)
    /\ ret' = Ret("Ok")
    /\ calls' = <<>>
    /\ UNCHANGED <<selectables, data, state, cursor, history, frame_area>>

\* The internal states of the items, one per grid position
current_vals(st) ==
    LET ps == grid_positions(st, 0, 0)
    IN  [k \in 1..Len(ps) |-> get(st, ps[k][1], ps[k][2]).val]

\* Every way the render hooks can leave the items
any_vals(st) == [1..Len(grid_positions(st, 0, 0)) -> ItemVals]

\* The part of the live state a FrameworkHistory holds
Live == FrameworkHistory(selectables, data.state, state, cursor)

\* A step that is no push and no other history operation, outside SpecScenario
Quiet == UNCHANGED <<log, pushed, widget>> /\ before' = cursor

\* Spec: Framework::new on one of Grids, then any sequence of set_state, move,
\* select, deselect, render, mouse_event and key_input.
Init ==
    /\ \E g \in Grids : New(g)
    /\ log = <<>>
    /\ pushed = None
    /\ before = CNone
    /\ widget = None

Next ==
    \/ Return /\ Quiet
    \/ \E g \in Grids : Idle /\ SetState(g) /\ Quiet
    \/ \E d \in Directions : Idle /\ Move(d) /\ Quiet
    \/ \E h \in HookOutcomes : Idle /\ Select(h) /\ Quiet
    \/ \E h \in HookOutcomes : Idle /\ Deselect(h) /\ Quiet
    \/ \E c \in Clicks, h \in HookOutcomes : Idle /\ MouseEvent(c[1], c[2], h) /\ Quiet
    \/ \E a \in Areas : \E vs \in any_vals(state) : Idle /\ Render(a, vs) /\ Quiet
    \/ \E h \in HookOutcomes : Idle /\ KeyInput(h) /\ Quiet
    \/ \E vs \in any_vals(state), f \in 0..Len(grid_positions(state, 0, 0)) :
          Idle /\ Load(vs, f) /\ Quiet

Spec == Init /\ [][Next]_vars

\* SpecHistory: Framework::new on one of HGrids, then any sequence of the
\* operations of Spec, writes of the context store and history operations,
\* push_history being called on a stack of fewer than MaxHistory entries.
InitHistory ==
    /\ \E g \in HGrids : New(g)
    /\ log = <<>>
    /\ pushed = None
    /\ before = CNone
    /\ widget = None

\* A history operation other than push_history
Unpush == pushed' = None /\ UNCHANGED <<log, widget>> /\ before' = cursor

NextHistory ==
    \/ Return /\ Quiet
    \/ \E g \in HGrids : Idle /\ SetState(g) /\ Quiet
    \/ \E d \in Directions : Idle /\ Move(d) /\ Quiet
    \/ \E h \in HookOutcomes : Idle /\ Select(h) /\ Quiet
    \/ \E h \in HookOutcomes : Idle /\ Deselect(h) /\ Quiet
    \/ \E c \in HClicks, h \in HookOutcomes : Idle /\ MouseEvent(c[1], c[2], h) /\ Quiet
    \/ \E a \in Areas : Idle /\ Render(a, current_vals(state)) /\ Quiet
    \/ \E h \in HookOutcomes : Idle /\ KeyInput(h) /\ Quiet
    \/ \E f \in 0..Len(grid_positions(state, 0, 0)) :
          Idle /\ Load(current_vals(state), f) /\ Quiet
    \/ \E t \in {"global", "state"}, v \in StoreVals : Idle /\ SetData(t, v) /\ Quiet
    \/ /\ Idle
       /\ Len(history) < MaxHistory
       /\ PushHistory
       /\ pushed' = Some(Live)
       /\ UNCHANGED <<log, widget>>
       /\ before' = cursor
    \/ Idle /\ ClearHistory /\ Unpush
    \/ Idle /\ PopHistory /\ Unpush
    \/ Idle /\ RevertLastHistory /\ Unpush
    \/ \E i \in 0..MaxHistory : Idle /\ RevertHistory(i) /\ Unpush

SpecHistory == InitHistory /\ [][NextHistory]_vars

\* SpecMove: Framework::new on any grid of at most MaxRows rows of at most
\* MaxCols items, then any sequence of moves.
InitMove ==
    /\ \E g \in AllGrids : New(g)
    /\ log = <<>>
    /\ pushed = None
    /\ before = CNone
    /\ widget = None

NextMove ==
    \/ Return /\ Quiet
    \/ \E d \in Directions : Idle /\ Move(d) /\ Quiet

SpecMove == InitMove /\ [][NextMove]_vars

\* SpecScenario: Framework::new on GridA, then at most MaxLog calls of move,
\* select and deselect with accepting hooks, each call and its result logged.
AcceptingHook == [accept |-> TRUE, val |-> 0]

InitScenario ==
    /\ New(GridA)
    /\ log = <<>>
    /\ pushed = None
    /\ before = CNone
    /\ widget = None

\* The call just made and its result are appended to the log
Logged ==
    /\ Len(log) < MaxLog
    /\ log' = Append(log, [op |-> op', ret |-> ret'.tag])
    /\ UNCHANGED <<pushed, widget>>
    /\ before' = cursor

NextScenario ==
    \/ Return /\ Quiet
    \/ \E d \in Directions : Idle /\ Move(d) /\ Logged
    \/ Idle /\ Select(AcceptingHook) /\ Logged
    \/ Idle /\ Deselect(AcceptingHook) /\ Logged

SpecScenario == InitScenario /\ [][NextScenario]_vars

\* SpecStack: Framework::new on one of HGrids, then any sequence of set_state,
\* move, writes of the per-state store and history operations, push_history
\* being called on a stack of fewer than MaxStack entries.
InitStack ==
    /\ \E g \in HGrids : New(g)
    /\ log = <<>>
    /\ pushed = None
    /\ before = CNone
    /\ widget = None

NextStack ==
    \/ Return /\ Quiet
    \/ \E g \in HGrids : Idle /\ SetState(g) /\ Quiet
    \/ \E d \in Directions : Idle /\ Move(d) /\ Quiet
    \/ \E v \in StoreVals : Idle /\ SetData("state", v) /\ Quiet
    \/ /\ Idle
       /\ Len(history) < MaxStack
       /\ PushHistory
       /\ pushed' = Some(Live)
       /\ UNCHANGED <<log, widget>>
       /\ before' = cursor
    \/ Idle /\ ClearHistory /\ Unpush
    \/ Idle /\ PopHistory /\ Unpush
    \/ Idle /\ RevertLastHistory /\ Unpush
    \/ \E i \in 0..MaxStack : Idle /\ RevertHistory(i) /\ Unpush

SpecStack == InitStack /\ [][NextStack]_vars

\* SpecCopy: Framework::new on one of HGrids, then any sequence of set_state,
\* move, select, deselect, key_input, writes of the per-state store,
\* push_history on a stack of fewer than MaxCopies entries, and reverts.
InitCopy ==
    /\ \E g \in HGrids : New(g)
    /\ log = <<>>
    /\ pushed = None
    /\ before = CNone
    /\ widget = None

NextCopy ==
    \/ Return /\ Quiet
    \/ \E g \in HGrids : Idle /\ SetState(g) /\ Quiet
    \/ \E d \in Directions : Idle /\ Move(d) /\ Quiet
    \/ \E h \in HookOutcomes : Idle /\ Select(h) /\ Quiet
    \/ \E h \in HookOutcomes : Idle /\ Deselect(h) /\ Quiet
    \/ \E h \in HookOutcomes : Idle /\ KeyInput(h) /\ Quiet
    \/ \E v \in StoreVals : Idle /\ SetData("state", v) /\ Quiet
    \/ /\ Idle
       /\ Len(history) < MaxCopies
       /\ PushHistory
       /\ pushed' = Some(Live)
       /\ UNCHANGED <<log, widget>>
       /\ before' = cursor
    \/ Idle /\ RevertLastHistory /\ Unpush
    \/ \E i \in 0..MaxCopies : Idle /\ RevertHistory(i) /\ Unpush

SpecCopy == InitCopy /\ [][NextCopy]_vars

\* SpecMouse: Framework::new on one of MGrids, then any sequence of move,
\* select, deselect, render and mouse_event; the grid is never replaced.
InitMouse ==
    /\ \E g \in MGrids : New(g)
    /\ log = <<>>
    /\ pushed = None
    /\ before = CNone
    /\ widget = None

NextMouse ==
    \/ Return /\ Quiet
    \/ \E d \in Directions : Idle /\ Move(d) /\ Quiet
    \/ \E h \in HookOutcomes : Idle /\ Select(h) /\ Quiet
    \/ \E h \in HookOutcomes : Idle /\ Deselect(h) /\ Quiet
    \/ \E c \in Clicks, h \in HookOutcomes : Idle /\ MouseEvent(c[1], c[2], h) /\ Quiet
    \/ \E a \in Areas : Idle /\ Render(a, current_vals(state)) /\ Quiet

SpecMouse == InitMouse /\ [][NextMouse]_vars

\* The cells load_only is called with (not all of them slots of every grid)
LoadCells == (0..1) \X (0..1)

\* The slots of the grid st, as locations for load_only_multiple
slots_of(st) == {p \in LoadCells : HasSlot(st, p[1], p[2])}

\* SpecLoad: Framework::new on one of Grids, then any sequence of move, select,
\* key_input, load, load_only and load_only_multiple on at most MaxLocs slots.
InitLoad ==
    /\ \E g \in Grids : New(g)
    /\ log = <<>>
    /\ pushed = None
    /\ before = CNone
    /\ widget = None

NextLoad ==
    \/ Return /\ Quiet
    \/ \E d \in Directions : Idle /\ Move(d) /\ Quiet
    \/ \E h \in HookOutcomes : Idle /\ Select(h) /\ Quiet
    \/ \E h \in HookOutcomes : Idle /\ KeyInput(h) /\ Quiet
    \/ \E vs \in any_vals(state), f \in 0..Len(grid_positions(state, 0, 0)) :
          Idle /\ Load(vs, f) /\ Quiet
    \/ \E c \in LoadCells, h \in HookOutcomes : Idle /\ LoadOnly(c[1], c[2], h) /\ Quiet
    \/ \E locations \in SeqsUpTo(slots_of(state), MaxLocs) :
          \E hs \in [1..Len(locations) -> HookOutcomes] :
              Idle /\ LoadOnlyMultiple(locations, hs) /\ Quiet

SpecLoad == InitLoad /\ [][NextLoad]_vars

\* Every row of at most MaxCols items one or two cells wide, centered or not
LRows == {Row(items, c, 1) : items \in SeqsUpTo({S2, U1}, MaxCols), c \in BOOLEAN}

\* Every grid of at most MaxRows such rows
LGrids == SeqsUpTo(LRows, MaxRows)

\* Frame areas two cells high and up to MaxWidth cells wide
LAreas == {Rect(x, 0, w, 2) : x \in {0, 1}, w \in 0..MaxWidth}

\* SpecLayout: Framework::new on any grid of LGrids, then renders on the areas
\* of LAreas and mouse clicks.
InitLayout ==
    /\ \E g \in LGrids : New(g)
    /\ log = <<>>
    /\ pushed = None
    /\ before = CNone
    /\ widget = None

NextLayout ==
    \/ Return /\ Quiet
    \/ \E a \in LAreas : Idle /\ Render(a, current_vals(state)) /\ Quiet
    \/ \E c \in {<<0, 0>>, <<2, 1>>} :
          Idle /\ MouseEvent(c[1], c[2], AcceptingHook) /\ Quiet

SpecLayout == InitLayout /\ [][NextLayout]_vars

\* The cursors a hook can leave through the context handle: None, or Hover or
\* Selected at a position of the index
IndexCursors ==
    {CNone} \cup
    {Hover(x, y) : <<x, y>> \in {p \in (0..MaxCols) \X (0..MaxRows) : InRange(selectables, p[1], p[2])}} \cup
    {Selected(x, y) : <<x, y>> \in {p \in (0..MaxCols) \X (0..MaxRows) : InRange(selectables, p[1], p[2])}}

\* Framework::render during which a render hook writes the cursor c through
\* its FrameworkClean; selected and hover were resolved before the first pass.
RenderHooked(area, vs, c) ==
    /\ op' = Op("render", <<area>>)
    /\ frame_area' = Some(area)
    /\ UNCHANGED <<selectables, data, history>>
    /\ \/ /\ \/ get_chunks_underflows(state, area)
             \/ selected_panics(cursor, selectables)
             \/ hover_panics(cursor, selectables)
          /\ ret' = Ret("Panic")
          /\ calls' = <<>>
          /\ UNCHANGED <<state, cursor>>
       \/ /\ ~selected_panics(cursor, selectables)
          /\ ~hover_panics(cursor, selectables)
          /\ LET chunks == get_chunks(state, area)
                 selected == CursorState_selected(cursor, selectables)
                 hover == CursorState_hover(cursor, selectables)
             IN  /\ calls' = render_raw(state, chunks, selected, hover, FALSE)
                             \o render_raw(state, chunks, selected, hover, TRUE)
                 /\ state' = touch_all(state, grid_positions(state, 0, 0), vs)
                 /\ cursor' = c
                 /\ ret' = Ret("Ok")

\* Framework::load during which a load_item hook writes the cursor c through
\* its FrameworkClean
LoadHooked(vs, failed, c) ==
    /\ op' = Op("load", <<>>)
    /\ UNCHANGED <<selectables, data, history, frame_area>>
    /\ IF selected_panics(cursor, selectables) \/ hover_panics(cursor, selectables)
       THEN /\ ret' = Ret("Panic")
            /\ calls' = <<>>
            /\ UNCHANGED <<state, cursor>>
       ELSE LET ps == grid_positions(state, 0, 0)
                n == IF failed = 0 THEN Len(ps) ELSE failed
                selected == CursorState_selected(cursor, selectables)
                hover == CursorState_hover(cursor, selectables)
            IN  /\ calls' = load_calls(state, selected, hover, n, failed)
                /\ state' = touch_all(state, SubSeq(ps, 1, n), SubSeq(vs, 1, n))
                /\ cursor' = c
                /\ ret' = Ret(IF failed = 0 THEN "Ok" ELSE "HookError")

\* SpecInfo: Framework::new on one of Grids, then moves, selects, deselects,
\* and renders and loads whose hooks write the cursor.
InitInfo ==
    /\ \E g \in Grids : New(g)
    /\ log = <<>>
    /\ pushed = None
    /\ before = CNone
    /\ widget = None

NextInfo ==
    \/ Return /\ Quiet
    \/ \E d \in Directions : Idle /\ Move(d) /\ Quiet
    \/ Idle /\ Select(AcceptingHook) /\ Quiet
    \/ Idle /\ Deselect(AcceptingHook) /\ Quiet
    \/ \E a \in Areas, c \in IndexCursors :
          Idle /\ RenderHooked(a, current_vals(state), c) /\ Quiet
    \/ \E failed \in 0..Len(grid_positions(state, 0, 0)), c \in IndexCursors :
          Idle /\ LoadHooked(current_vals(state), failed, c) /\ Quiet

SpecInfo == InitInfo /\ [][NextInfo]_vars

-----------------------------------------------------------------------------
(* The Grid widget (widgets/grid.rs)                                       *)

\* Constraint::Percentage(p), Constraint::Length(l)
Percentage(p) == [kind |-> "Percentage", v |-> p]

Length(l) == [kind |-> "Length", v |-> l]

\* Constraint::apply: a percentage of the length rounded down, a fixed length
\* cut off at the length
Constraint_apply(c, length) ==
    IF c.kind = "Percentage"
    THEN Min((c.v * length) \div 100, length)
    ELSE Min(c.v, length)

\* Grid::lengths that gives the rounding slack to the first element
Grid_lengths_slack_first(constraints, length) ==
    LET n == Len(constraints)
    IN  IF length < n + 1 THEN Ret("NotEnoughLength")
        ELSE LET rest == length - n
                 lengths == [i \in 1..n |-> Constraint_apply(constraints[i], rest)]
                 sum == SumSeq(lengths)
             IN  IF sum >= rest THEN RetVal("Ok", lengths)
                 ELSE IF n = 0 THEN Ret("Panic")
                 ELSE RetVal("Ok", [lengths EXCEPT ![1] = @ + (rest - sum)])

\* Grid::lengths: Err(NotEnoughLength), or the applied constraints with what
\* they leave of the length added to the last one; last_mut().unwrap() aborts
\* when there is no last one.
Grid_lengths(constraints, length) ==
    LET n == Len(constraints)
    IN  IF length < n + 1 THEN Ret("NotEnoughLength")
        ELSE LET rest == length - n
                 lengths == [i \in 1..n |-> Constraint_apply(constraints[i], rest)]
                 sum == SumSeq(lengths)
             IN  IF sum >= rest THEN RetVal("Ok", lengths)
                 ELSE IF n = 0 THEN Ret("Panic")
                 ELSE RetVal("Ok", [lengths EXCEPT ![n] = @ + (rest - sum)])

\* Grid::lines: the position of the border line before each length, and of
\* the one after the last
RECURSIVE Grid_lines(_, _)
Grid_lines(position, lengths) ==
    IF lengths = <<>> THEN <<position>>
    ELSE <<position>> \o Grid_lines(position + 1 + Head(lengths), Tail(lengths))

\* Grid::heights
Grid_heights(g, height) == Grid_lengths(g.heights, height)

\* Grid::widths, `width - 1` in u16 (wrapping)
Grid_widths(g, width) == Grid_lengths(g.widths, (width - 1) % U16)

\* Grid::new
Grid_new(ws, hs) ==
    IF ws = <<>> \/ hs = <<>> THEN Ret("ZeroLength")
    ELSE RetVal("Ok", [widths |-> ws, heights |-> hs])

\* Whether a u16 subtraction of Grid::chunks underflows: `width - 1` of
\* Grid::widths on an empty area, `*height - 1` on a row of height 0
Grid_chunks_underflows(g, area) ==
    \/ area.width = 0
    \/ /\ Grid_widths(g, area.width).tag = "Ok"
       /\ Grid_heights(g, area.height).tag = "Ok"
       /\ \E r \in 1..Len(g.heights) : Grid_heights(g, area.height).val[1][r] = 0

\* Grid::chunks, in u16 arithmetic (wrapping)
Grid_chunks(g, area) ==
    LET w == Grid_widths(g, area.width)
        h == Grid_heights(g, area.height)
    IN  IF w.tag # "Ok" THEN Ret(w.tag)
        ELSE IF h.tag # "Ok" THEN Ret(h.tag)
        ELSE LET widths_ == w.val[1]
                 heights_ == h.val[1]
                 xs == [c \in 1..Len(g.widths) |-> Grid_lines(area.x, widths_)[c] + 1]
                 ys == [r \in 1..Len(g.heights) |-> Grid_lines(area.y, heights_)[r] + 1]
             IN  RetVal("Ok",
                        [r \in 1..Len(ys) |->
                            [c \in 1..Len(xs) |->
                                Rect(xs[c], ys[r], widths_[c], (heights_[r] - 1) % U16)]])

\* The framework fields of a host that only drives a widget
NoFramework ==
    /\ selectables = <<>>
    /\ data = FrameworkData_default
    /\ state = <<>>
    /\ cursor = CNone
    /\ history = <<>>
    /\ frame_area = None
    /\ calls = <<>>
    /\ log = <<>>
    /\ pushed = None
    /\ before = CNone

WidgetOnly ==
    UNCHANGED <<selectables, data, state, cursor, history, frame_area, calls,
                log, pushed, before>>

\* The constraints the model passes to the Grid
GridConstraints == {Percentage(40), Percentage(50), Percentage(60), Percentage(100), Length(2)}

\* The lengths the model passes: the small ones and the 103 of the tests
GridLengths == (0..MaxLength) \cup {103}

\* Grid::lengths(constraints, length) called by the host
Lengths(constraints, length) ==
    /\ op' = Op("lengths", <<constraints, length>>)
    /\ ret' = Grid_lengths(constraints, length)
    /\ UNCHANGED widget
    /\ WidgetOnly

\* SpecLengths: calls of the associated function Grid::lengths on sequences of
\* at most MaxConstraints constraints and the lengths of GridLengths.
InitLengths ==
    /\ NoFramework
    /\ widget = None
    /\ op = Op("idle", <<>>)
    /\ ret = Ret("Ok")

NextLengths ==
    \/ Return /\ Quiet
    \/ \E cs \in SeqsUpTo(GridConstraints, MaxConstraints), l \in GridLengths :
          Idle /\ Lengths(cs, l)

SpecLengths == InitLengths /\ [][NextLengths]_vars

\* The rows or columns of the grids of SpecGrid
GridShapes ==
    (SeqsUpTo({Percentage(40), Percentage(50), Percentage(60)}, MaxConstraints)
        \ {<<>>}) \cup {<<Percentage(100)>>}

\* The areas of SpecGrid
GridAreas == {Rect(10, 10, w, h) : w \in GridLengths, h \in GridLengths}

\* Grid::chunks(area) called by the host; a u16 underflow aborts the call in a
\* build that checks overflow and wraps in one that does not.
Chunks(area) ==
    /\ op' = Op("chunks", <<area>>)
    /\ \/ /\ Grid_chunks_underflows(widget[1], area)
          /\ ret' = Ret("Panic")
       \/ ret' = Grid_chunks(widget[1], area)
    /\ UNCHANGED widget
    /\ WidgetOnly

\* SpecGrid: Grid::new on widths and heights of GridShapes, then Grid::chunks
\* on the areas of GridAreas.
InitGrid ==
    /\ NoFramework
    /\ \E ws \in GridShapes, hs \in GridShapes : widget = Grid_new(ws, hs).val
    /\ op = Op("Grid::new", <<>>)
    /\ ret = Ret("Ok")

NextGrid ==
    \/ Return /\ Quiet
    \/ \E a \in GridAreas : Idle /\ Chunks(a)

SpecGrid == InitGrid /\ [][NextGrid]_vars

-----------------------------------------------------------------------------
(* The TextList widget (widgets/textlist.rs)                               *)

\* usize addition and subtraction as a build without overflow checks computes
\* them (wrapping), and whether a build with overflow checks aborts on them
WAdd(a, b) == IF a <= UsizeMax - b THEN a + b ELSE a - (UsizeMax - b) - 1

WSub(a, b) == IF a >= b THEN a - b ELSE UsizeMax - (b - a) + 1

AddOv(a, b) == a > UsizeMax - b

SubOv(a, b) == a < b

\* TextList::default(): no items, nothing scrolled, height unknown. `len` is
\* items.len(); `checks` tells whether the build checks arithmetic overflow.
TextList_default(checks) ==
    [len |-> 0, selected |-> 0, scroll |-> 0, height |-> None, checks |-> checks]

\* What a TextList function leaves and returns; ov: some usize operation on
\* the way overflowed
TLRes(tl, tag, ov) == [tl |-> tl, tag |-> tag, ov |-> ov]

\* TextList::update
TextList_update(tl) ==
    IF tl.height = None THEN TLRes(tl, "UnknownHeight", FALSE)
    ELSE LET height == tl.height[1] - 2
         IN  IF height <= 0 THEN TLRes(tl, "NotEnoughHeight", FALSE)
             ELSE IF tl.selected < tl.scroll
                  THEN TLRes([tl EXCEPT !.scroll = tl.selected], "Ok", FALSE)
             ELSE IF WAdd(tl.scroll, height) <= tl.selected
                  THEN TLRes([tl EXCEPT !.scroll = WAdd(WSub(tl.selected, height), 1)], "Ok",
                             AddOv(tl.scroll, height) \/ SubOv(tl.selected, height))
             ELSE TLRes(tl, "Ok", AddOv(tl.scroll, height))

\* `f(..); self.update()?; Ok(())`: update on what f left
ThenUpdate(tl, ov) ==
    LET u == TextList_update(tl) IN TLRes(u.tl, u.tag, ov \/ u.ov)

\* TextList::up
TextList_up(tl) ==
    IF tl.selected # 0
    THEN ThenUpdate([tl EXCEPT !.selected = @ - 1], FALSE)
    ELSE TLRes(tl, "Ok", FALSE)

\* TextList::down
TextList_down(tl) ==
    IF tl.len = 0 THEN TLRes(tl, "Ok", FALSE)
    ELSE IF tl.selected < tl.len - 1
         THEN ThenUpdate([tl EXCEPT !.selected = @ + 1], FALSE)
         ELSE TLRes(tl, "Ok", FALSE)

\* TextList::pageup that leaves the scroll to update()
TextList_pageup_keeps_scroll(tl) ==
    IF tl.height = None THEN TLRes(tl, "UnknownHeight", FALSE)
    ELSE IF tl.selected = 0 THEN TLRes(tl, "Ok", FALSE)
    ELSE LET shift_by == WSub(tl.height[1], 2)
             ov == SubOv(tl.height[1], 2)
         IN  IF tl.selected < shift_by
             THEN ThenUpdate([tl EXCEPT !.selected = 0], ov)
             ELSE ThenUpdate([tl EXCEPT !.selected = @ - shift_by], ov)

\* TextList::pageup
TextList_pageup(tl) ==
    IF tl.height = None THEN TLRes(tl, "UnknownHeight", FALSE)
    ELSE IF tl.selected = 0 THEN TLRes(tl, "Ok", FALSE)
    ELSE LET shift_by == WSub(tl.height[1], 2)
             ov == SubOv(tl.height[1], 2)
         IN  IF tl.selected < shift_by
             THEN ThenUpdate([tl EXCEPT !.selected = 0], ov)
             ELSE ThenUpdate([tl EXCEPT !.selected = @ - shift_by,
                                        !.scroll = IF @ > shift_by THEN @ - shift_by ELSE 0],
                             ov)

\* TextList::pagedown
TextList_pagedown(tl) ==
    IF tl.height = None THEN TLRes(tl, "UnknownHeight", FALSE)
    ELSE LET height == tl.height[1]
             last == WSub(tl.len, 1)
             ov1 == SubOv(tl.len, 1)
         IN  IF tl.selected >= last THEN TLRes(tl, "Ok", ov1)
             ELSE LET shift_by == WSub(height, 2)
                      ov2 == ov1 \/ SubOv(height, 2)
                  IN  IF WAdd(tl.selected, shift_by) > last
                      THEN ThenUpdate([tl EXCEPT !.selected = last],
                                      ov2 \/ AddOv(tl.selected, shift_by))
                      ELSE LET a == WAdd(tl.scroll, shift_by)
                               b == WAdd(a, height)
                               ov3 == \/ ov2
                                      \/ AddOv(tl.selected, shift_by)
                                      \/ AddOv(tl.scroll, shift_by)
                                      \/ AddOv(a, height)
                                      \/ SubOv(b, 2)
                           IN  IF WSub(b, 2) < tl.len
                               THEN ThenUpdate([tl EXCEPT !.selected = WAdd(@, shift_by),
                                                          !.scroll = a],
                                               ov3)
                               ELSE ThenUpdate([tl EXCEPT !.selected = WAdd(@, shift_by),
                                                          !.scroll = WAdd(WSub(last, height), 2)],
                                               ov3 \/ SubOv(last, height)
                                                   \/ AddOv(WSub(last, height), 2))

\* TextList::first
TextList_first(tl) ==
    IF tl.selected = 0 THEN TLRes(tl, "Ok", FALSE)
    ELSE ThenUpdate([tl EXCEPT !.selected = 0], FALSE)

\* TextList::last
TextList_last(tl) ==
    LET last == WSub(tl.len, 1)
        ov == SubOv(tl.len, 1)
    IN  IF tl.selected = last THEN TLRes(tl, "Ok", ov)
        ELSE ThenUpdate([tl EXCEPT !.selected = last], ov)

\* TextList::set_selected
TextList_set_selected(tl, index) == ThenUpdate([tl EXCEPT !.selected = index], FALSE)

\* TextList::set_height
TextList_set_height(tl, height) == TLRes([tl EXCEPT !.height = Some(height)], "Ok", FALSE)

\* TextList::set_items with a list of n items
TextList_set_items(tl, n) ==
    IF tl.height # None
    THEN ThenUpdate([tl EXCEPT !.len = n], FALSE)
    ELSE TLRes([tl EXCEPT !.len = n], "Ok", FALSE)

\* A TextList function called by the host: it aborts on an overflow in a build
\* that checks for it, and goes on with the wrapped value in one that does not.
\* The host is followed no further once a wrapped value has left selected or
\* scroll beyond MaxItems.
TextListCall(name, args, r) ==
    /\ widget[1].selected <= MaxItems
    /\ widget[1].scroll <= MaxItems
    /\ op' = Op(name, args)
    /\ IF widget[1].checks /\ r.ov
       THEN ret' = Ret("Panic") /\ UNCHANGED widget
       ELSE ret' = Ret(r.tag) /\ widget' = Some(r.tl)
    /\ WidgetOnly

\* SpecTextList: TextList::default() in a build with or without overflow
\* checks, then any sequence of the movement functions and of set_items,
\* set_height and set_selected with at most MaxItems items, heights up to
\* MaxHeight and indices up to MaxItems.
InitTextList ==
    /\ NoFramework
    /\ \E checks \in BOOLEAN : widget = Some(TextList_default(checks))
    /\ op = Op("TextList::default", <<>>)
    /\ ret = Ret("Ok")

NextTextList ==
    \/ Return /\ Quiet
    \/ Idle /\ TextListCall("update", <<>>, TextList_update(widget[1]))
    \/ Idle /\ TextListCall("up", <<>>, TextList_up(widget[1]))
    \/ Idle /\ TextListCall("down", <<>>, TextList_down(widget[1]))
    \/ Idle /\ TextListCall("pageup", <<>>, TextList_pageup(widget[1]))
    \/ Idle /\ TextListCall("pagedown", <<>>, TextList_pagedown(widget[1]))
    \/ Idle /\ TextListCall("first", <<>>, TextList_first(widget[1]))
    \/ Idle /\ TextListCall("last", <<>>, TextList_last(widget[1]))
    \/ \E i \in 0..MaxItems :
          Idle /\ TextListCall("set_selected", <<i>>, TextList_set_selected(widget[1], i))
    \/ \E h \in 0..MaxHeight :
          Idle /\ TextListCall("set_height", <<h>>, TextList_set_height(widget[1], h))
    \/ \E n \in 0..MaxItems :
          Idle /\ TextListCall("set_items", <<n>>, TextList_set_items(widget[1], n))

SpecTextList == InitTextList /\ [][NextTextList]_vars

-----------------------------------------------------------------------------
(* Properties                                                              *)

\* The cursor is Hover or Selected at a position of the index sel
CursorInBounds(c, sel) == c.kind # "None" => InRange(sel, c.x, c.y)

\* The direction of the move in op
Dir == op.args[1]

\* C1 as stated: after every move of a sequence of moves from None on a grid
\* G, the cursor, if not None, is Hover(c, r) with r < the number of rows of
\* selectables(G) and c < the length of its row r.
C1_MoveStaysInBounds ==
    cursor.kind # "None" =>
        cursor.kind = "Hover" /\ InRange(State_selectables(state), cursor.x, cursor.y)

\* C1 amended: after every move of a sequence of moves from None on a grid G,
\* the cursor, if not None, is Hover(c, r), in bounds of selectables(G) when
\* selectables(G) is not empty and Hover(0, 0) when it is empty.
C1_MoveStaysInBoundsOrOrigin ==
    cursor.kind # "None" =>
        /\ cursor.kind = "Hover"
        /\ IF State_selectables(state) = <<>>
           THEN cursor = Hover(0, 0)
           ELSE InRange(State_selectables(state), cursor.x, cursor.y)

\* A move has put the cursor on the second item of the second row of the index.
C1_Witness ==
    /\ op.name = "move"
    /\ cursor = Hover(1, 1)
    /\ Len(State_selectables(state)) = 2

\* C2: in every reachable state a Hover or Selected cursor is in bounds of the
\* current selectables index, also right after set_state has replaced the grid
\* by one with fewer selectable rows or columns. Stated for a non-empty index
\* (on an empty one a move leaves Hover(0, 0), see C8).
C2_CursorInBounds ==
    selectables # <<>> => CursorInBounds(cursor, selectables)

\* C3 as stated: select() succeeds only from Hover(c, r) and then yields
\* Selected(c, r); deselect() succeeds only from Selected(c, r) and then yields
\* Hover(c, r); from any other cursor each fails with CursorStateMismatch and
\* leaves the cursor unchanged.
C3_SelectDeselect ==
    /\ op.name = "select" =>
          /\ ret.tag = "Ok" =>
                before.kind = "Hover" /\ cursor = Selected(before.x, before.y)
          /\ before.kind # "Hover" =>
                ret.tag = "CursorStateMismatch" /\ cursor = before
    /\ op.name = "deselect" =>
          /\ ret.tag = "Ok" =>
                before.kind = "Selected" /\ cursor = Hover(before.x, before.y)
          /\ before.kind # "Selected" =>
                ret.tag = "CursorStateMismatch" /\ cursor = before

\* C3 amended: select() succeeds only from Hover(c, r), after invoking the
\* select hook of the hovered item, and then yields Selected(c, r) if the hook
\* accepted and leaves Hover(c, r) if it rejected; deselect() succeeds only
\* from Selected(c, r), after invoking the deselect hook of the selected item,
\* and then yields Hover(c, r) if the hook accepted and leaves Selected(c, r)
\* if it rejected; from any other cursor each fails with CursorStateMismatch
\* and leaves the cursor unchanged.
C3_SelectDeselectIfAccepted ==
    /\ op.name = "select" =>
          /\ ret.tag = "Ok" =>
                /\ before.kind = "Hover"
                /\ Len(calls) = 1
                /\ calls[1].hook = "select"
                /\ cursor = IF calls[1].result
                            THEN Selected(before.x, before.y) ELSE before
          /\ before.kind # "Hover" =>
                ret.tag = "CursorStateMismatch" /\ cursor = before
    /\ op.name = "deselect" =>
          /\ ret.tag = "Ok" =>
                /\ before.kind = "Selected"
                /\ Len(calls) = 1
                /\ calls[1].hook = "deselect"
                /\ cursor = IF calls[1].result
                            THEN Hover(before.x, before.y) ELSE before
          /\ before.kind # "Selected" =>
                ret.tag = "CursorStateMismatch" /\ cursor = before

\* select() has turned Hover(1, 0) into Selected(1, 0).
C3_Witness ==
    /\ op.name = "select"
    /\ ret.tag = "Ok"
    /\ before = Hover(1, 0)
    /\ cursor = Selected(1, 0)

\* C4: whenever the cursor is Selected(c, r), move(d) fails with MoveSelected,
\* whatever the direction d, and the cursor is still Selected(c, r).
C4_MoveSelected ==
    op.name = "move" /\ before.kind = "Selected" =>
        ret.tag = "MoveSelected" /\ cursor = before

\* move(Up) was called on Selected(0, 1) and failed.
C4_Witness ==
    /\ op.name = "move"
    /\ Dir = "Up"
    /\ before = Selected(0, 1)
    /\ ret.tag = "MoveSelected"

\* The calls of the scenario of C5, the cursor after each and what each returns
Script ==
    <<Op("move", <<"Right">>), Op("move", <<"Down">>), Op("select", <<>>),
      Op("move", <<"Left">>), Op("deselect", <<>>)>>

ScriptCursor == <<Hover(1, 0), Hover(0, 1), Selected(0, 1), Selected(0, 1), Hover(0, 1)>>

ScriptRet == <<"Ok", "Ok", "Ok", "MoveSelected", "Ok">>

\* The first k calls made are the first k calls of the scenario
Scripted(k) == Len(log) = k /\ \A i \in 1..k : log[i].op = Script[i]

\* C5: on the grid row 0 = two selectable items, row 1 = one selectable item,
\* with accepting hooks and from cursor None, move(Right), move(Down),
\* select(), move(Left), deselect() give in order Hover(1, 0); Hover(0, 1);
\* Selected(0, 1); a MoveSelected failure with the cursor still Selected(0, 1);
\* Hover(0, 1).
C5_Scenario ==
    \A k \in 1..Len(Script) :
        Scripted(k) => cursor = ScriptCursor[k] /\ log[k].ret = ScriptRet[k]

\* The five calls of the scenario have been made.
C5_Witness == Scripted(5) /\ ~Idle /\ cursor = Hover(0, 1)

\* C6: from cursor None on a non-empty index, move(Left) and move(Up) give
\* Hover(0, 0), move(Right) gives Hover(len(row 0) - 1, 0) and move(Down) gives
\* Hover(0, rowcount - 1).
C6_MoveFromNone ==
    op.name = "move" /\ before.kind = "None" /\ selectables # <<>> =>
        /\ ret.tag = "Ok"
        /\ cursor = CASE Dir \in {"Left", "Up"} -> Hover(0, 0)
                      [] Dir = "Right" -> Hover(Len(selectables[1]) - 1, 0)
                      [] Dir = "Down" -> Hover(0, Len(selectables) - 1)

\* move(Right) from None has entered at the last column of a two-item row 0.
C6_Witness ==
    /\ op.name = "move"
    /\ Dir = "Right"
    /\ before.kind = "None"
    /\ cursor = Hover(1, 0)

\* C7: from Hover(c, r) on a non-empty index, Left gives column max(c - 1, 0),
\* Up gives row max(r - 1, 0), Right gives column c + 1 and Down gives row
\* r + 1; then the row is capped to rowcount - 1 and after that the column to
\* the length of the resulting row minus 1. So a move Up or Down into a
\* shorter row lowers the column to that row's last index, and Right at the
\* last column or Down at the last row leaves the cursor unchanged.
C7_MoveFromHover ==
    op.name = "move" /\ before.kind = "Hover" /\ selectables # <<>> =>
        LET c == before.x
            r == before.y
            c_step == CASE Dir = "Left" -> Max(c - 1, 0)
                        [] Dir = "Right" -> c + 1
                        [] OTHER -> c
            r_step == CASE Dir = "Up" -> Max(r - 1, 0)
                        [] Dir = "Down" -> r + 1
                        [] OTHER -> r
            r_cap == Min(r_step, Len(selectables) - 1)
            last == Len(selectables[r_cap + 1]) - 1
        IN  /\ ret.tag = "Ok"
            /\ cursor = Hover(Min(c_step, last), r_cap)
            /\ Dir \in {"Up", "Down"} /\ last < c => cursor.x = last
            /\ /\ InRange(selectables, c, r)
               /\ \/ Dir = "Right" /\ c = Len(selectables[r + 1]) - 1
                  \/ Dir = "Down" /\ r = Len(selectables) - 1
               => cursor = before

\* move(Down) from the second item of row 0 into the one-item row 1.
C7_Witness ==
    /\ op.name = "move"
    /\ Dir = "Down"
    /\ before = Hover(1, 0)
    /\ cursor = Hover(0, 1)

\* C8: while the selectables index is empty, every move from None or Hover
\* ends in Hover(0, 0), hover() and selected() return nothing whatever the raw
\* cursor, and Framework::select and Framework::deselect fail with
\* CursorStateMismatch, invoke no item hook and leave the cursor unchanged.
C8_EmptyIndex ==
    selectables = <<>> =>
        /\ CursorState_hover(cursor, selectables) = None
        /\ CursorState_selected(cursor, selectables) = None
        /\ op.name = "move" /\ before.kind \in {"None", "Hover"} =>
              ret.tag = "Ok" /\ cursor = Hover(0, 0)
        /\ op.name \in {"select", "deselect"} =>
              ret.tag = "CursorStateMismatch" /\ calls = <<>> /\ cursor = before

\* deselect() was called with a raw Selected cursor on an empty index.
C8_Witness ==
    /\ selectables = <<>>
    /\ op.name = "deselect"
    /\ before.kind = "Selected"
    /\ ret.tag = "CursorStateMismatch"

\* C9: push_history(), then any calls that do not touch the history stack,
\* then revert_last_history() leave selectables, per-state store, grid and
\* cursor equal to their values at the push.
C9_PushThenRevert ==
    [][op'.name = "revert_last_history" /\ pushed # None =>
           ret'.tag = "Ok" /\ Live' = pushed[1]]_vars

\* revert_last_history() has brought back a grid, a per-state store and a
\* cursor that had all been changed since the push.
C9_Witness ==
    /\ op.name = "revert_last_history"
    /\ ret.tag = "Ok"
    /\ before = Selected(0, 0)
    /\ cursor = Hover(0, 0)
    /\ state = GridB
    /\ data.state = 0
    /\ data.global = 1

\* C10: revert_history(i) with i >= the length of the history, and
\* revert_last_history() on an empty history, return NoSuchSave and leave the
\* history stack, grid, selectables, cursor and both store tiers unchanged.
C10_NoSuchSave ==
    [][\/ op'.name = "revert_history" /\ op'.args[1] >= Len(history)
       \/ op'.name = "revert_last_history" /\ history = <<>>
       => /\ ret'.tag = "NoSuchSave"
          /\ UNCHANGED <<history, state, selectables, cursor, data>>]_vars

\* revert_history(1) was called on a history of one entry.
C10_Witness ==
    /\ op.name = "revert_history"
    /\ op.args[1] = 1
    /\ ret.tag = "NoSuchSave"
    /\ Len(history) = 1

\* C11: a successful revert_last_history() / revert_history(i) sets
\* selectables, per-state store, grid and cursor to those of the last / i-th
\* history entry, removes exactly that entry (the stack is one shorter) and
\* keeps the other entries unchanged and in their order; pop_history() removes
\* and returns the last entry and leaves the live state as it is.
C11_RevertAndPop ==
    [][/\ op'.name = "revert_last_history" /\ ret'.tag = "Ok" =>
            /\ history # <<>>
            /\ Live' = history[Len(history)]
            /\ history' = SubSeq(history, 1, Len(history) - 1)
       /\ op'.name = "revert_history" /\ ret'.tag = "Ok" =>
            LET i == op'.args[1]
            IN  /\ i < Len(history)
                /\ Live' = history[i + 1]
                /\ Len(history') = Len(history) - 1
                /\ \A k \in 1..Len(history') :
                       history'[k] = history[IF k <= i THEN k ELSE k + 1]
       /\ op'.name = "pop_history" =>
            /\ Live' = Live
            /\ data' = data
            /\ IF history = <<>>
               THEN ret'.tag = "None" /\ history' = <<>>
               ELSE /\ ret' = RetVal("Some", history[Len(history)])
                    /\ history' = SubSeq(history, 1, Len(history) - 1)]_vars

\* revert_history(1) has removed the middle one of three different entries and
\* made it the live state.
C11_Witness ==
    /\ op.name = "revert_history"
    /\ op.args[1] = 1
    /\ ret.tag = "Ok"
    /\ Len(history) = 2
    /\ history[1] # history[2]
    /\ Live # history[1]
    /\ Live # history[2]

\* The position on the stack of the entry a step takes off it, 0 if none
Taken ==
    CASE op'.name = "revert_history" /\ ret'.tag = "Ok" -> op'.args[1] + 1
      [] op'.name = "revert_last_history" /\ ret'.tag = "Ok" -> Len(history)
      [] OTHER -> 0

\* C12: a history entry is a value copy: the entry push_history() appends
\* holds the live selectables, per-state store, grid and cursor of that
\* moment, and no later set_state, move, select, deselect, item callback,
\* store write or revert of another entry changes the content of an entry
\* that is still on the stack.
C12_EntriesAreCopies ==
    [][/\ op'.name = "push_history" => history'[Len(history')] = Live
       /\ Len(history') >= Len(history) - (IF Taken = 0 THEN 0 ELSE 1)
       /\ \A k \in 1..Len(history) :
              k # Taken =>
                  history'[IF Taken # 0 /\ k > Taken THEN k - 1 ELSE k] = history[k]]_vars

\* An item callback has changed the live grid after a push, the cursor and the
\* per-state store have changed too, and the entry differs from all of them.
C12_Witness ==
    /\ op.name = "key_input"
    /\ Len(calls) = 1
    /\ Len(history) = 2
    /\ history[2].selectables = selectables
    /\ history[2].state # state
    /\ history[2].cursor # cursor
    /\ history[2].data # data.state

C14_SetStateFrame ==
    [][op'.name = "set_state" =>
           /\ state' = op'.args[1]
           /\ selectables' = State_selectables(op'.args[1])
           /\ UNCHANGED <<cursor, data, history, frame_area>>]_vars

\* set_state() has replaced the grid under a Selected cursor, with both store
\* tiers written, an entry on the stack and a frame area recorded.
C14_Witness ==
    /\ op.name = "set_state"
    /\ state = GridC
    /\ cursor = Selected(0, 0)
    /\ data = [global |-> 1, state |-> 1]
    /\ Len(history) = 1
    /\ history[1].state = GridB
    /\ frame_area # None

\* The (column, row) pairs an index holds
Coords(sel) == UNION {{sel[r][c] : c \in 1..Len(sel[r])} : r \in 1..Len(sel)}

\* C15: selectables() of a grid holds exactly the (column, row) coordinates of
\* the items that report selectable; index rows follow the order of the grid
\* rows; within an index row the coordinates are of one grid row, in increasing
\* column order; a grid row without a selectable item gives no index row, so
\* no index row is empty.
C15_Selectables ==
    LET sel == State_selectables(state)
    IN  /\ Coords(sel) = {p \in (0..MaxCols + 1) \X (0..MaxRows + 1) :
                             /\ HasSlot(state, p[1], p[2])
                             /\ get(state, p[1], p[2]).selectable}
        /\ \A r \in 1..Len(sel) :
              /\ sel[r] # <<>>
              /\ \A c1, c2 \in 1..Len(sel[r]) :
                     c1 < c2 => sel[r][c1][2] = sel[r][c2][2] /\ sel[r][c1][1] < sel[r][c2][1]
        /\ \A r1, r2 \in 1..Len(sel) : r1 < r2 => sel[r1][1][2] < sel[r2][1][2]

\* A grid whose row 0 has no selectable item and whose row 1 starts with an
\* unselectable one: the only index row is for grid row 1, its only slot for
\* grid column 1.
C15_Witness ==
    /\ state = <<Row(<<U1>>, FALSE, 1), Row(<<U1, S2>>, FALSE, 1)>>
    /\ State_selectables(state) = << << <<1, 1>> >> >>

\* C16: after any sequence of new, set_state, push_history, pop_history,
\* revert_last_history and revert_history, with moves, selections and mouse
\* events in between, the live selectables index is selectables() of the live
\* grid, so every coordinate pair in it is a slot of the grid; the index
\* changes only when the grid is replaced (by set_state or a revert).
C16_IndexMatchesGrid ==
    [][/\ selectables' = State_selectables(state')
       /\ \A p \in Coords(selectables') : HasSlot(state', p[1], p[2])
       /\ selectables' # selectables =>
              op'.name \in {"set_state", "revert_last_history", "revert_history"}]_vars

\* revert_history() has brought back a grid with a selectable item, and its index.
C16_Witness ==
    /\ op.name = "revert_history"
    /\ ret.tag = "Ok"
    /\ selectables = << << <<1, 0>> >> >>
    /\ get(state, 1, 0).val = 1

\* The item an Option of grid coordinates names, if any, exists and is selectable
OnSelectable(opt) ==
    opt # None =>
        /\ HasSlot(state, opt[1][1], opt[1][2])
        /\ get(state, opt[1][1], opt[1][2]).selectable

\* C17: the cursor never hovers or selects an unselectable item: whenever
\* hover() or selected() resolves to grid coordinates (x, y), the item at
\* (x, y) of the current grid reports selectable.
C17_OnlySelectable ==
    /\ ~hover_panics(cursor, selectables) =>
           OnSelectable(CursorState_hover(cursor, selectables))
    /\ ~selected_panics(cursor, selectables) =>
           OnSelectable(CursorState_selected(cursor, selectables))

\* The cursor has selected the item after an unselectable one.
C17_Witness ==
    /\ state = GridB
    /\ ~get(state, 0, 0).selectable
    /\ cursor = Selected(0, 0)
    /\ CursorState_selected(cursor, selectables) = Some(<<1, 0>>)

\* The slots of the live grid
Slots == {p \in (0..MaxCols + 1) \X (0..MaxRows + 1) : HasSlot(state, p[1], p[2])}

\* The hook calls of the last operation made on slot p with popup flag f
RenderCalls(p, f) ==
    {k \in 1..Len(calls) : calls[k].x = p[1] /\ calls[k].y = p[2] /\ calls[k].args[2] = f}

\* C18: a render(area) call invokes the render hook of every grid item
\* exactly twice, once with popup flag false and once with popup flag true;
\* every popup-false invocation comes before the first popup-true one; within
\* a pass the items are visited row by row, left to right.
C18_TwoPasses ==
    op.name = "render" /\ ret.tag = "Ok" =>
        /\ \A k \in 1..Len(calls) :
               calls[k].hook = "render" /\ <<calls[k].x, calls[k].y>> \in Slots
        /\ \A p \in Slots :
               Cardinality(RenderCalls(p, FALSE)) = 1 /\ Cardinality(RenderCalls(p, TRUE)) = 1
        /\ \A k1, k2 \in 1..Len(calls) :
               k1 < k2 =>
                   /\ calls[k1].args[2] => calls[k2].args[2]
                   /\ calls[k1].args[2] = calls[k2].args[2] =>
                          \/ calls[k1].y < calls[k2].y
                          \/ calls[k1].y = calls[k2].y /\ calls[k1].x < calls[k2].x

\* render() has run on the grid of two rows and three items, an item selected.
C18_Witness ==
    /\ op.name = "render"
    /\ ret.tag = "Ok"
    /\ Len(state) = 2
    /\ cursor.kind = "Selected"
    /\ Len(calls) = 6

C20_KeyInputErrsUnselected ==
    op.name = "key_input" /\ before.kind \in {"None", "Hover"} => ret.tag # "Ok"

\* C21: the frame area is unset after Framework::new and until the first
\* render; mouse_event called while it is unset returns false, invokes no item
\* hook and leaves cursor, grid, stores and history unchanged; render(area)
\* sets the frame area to area.
C21_FrameArea ==
    [][/\ op.name = "new" => frame_area = None
       /\ frame_area' # frame_area => op'.name = "render"
       /\ op'.name = "render" => frame_area' = Some(op'.args[1])
       /\ op'.name = "mouse_event" /\ frame_area = None =>
              /\ ret'.tag = "false"
              /\ calls' = <<>>
              /\ UNCHANGED fw]_vars

\* mouse_event was called on a hovered item's cell before any render.
C21_Witness ==
    /\ op.name = "mouse_event"
    /\ op.args = <<0, 0>>
    /\ frame_area = None
    /\ cursor = Hover(0, 0)
    /\ ret.tag = "false"

\* The cell (col, row) lies in the rectangle r
RectHas(r, col, row) ==
    /\ r.x <= col /\ col < r.x + r.width
    /\ r.y <= row /\ row < r.y + r.height

\* The positions of the live selectables index
IndexPositions ==
    {p \in (0..MaxCols + 1) \X (0..MaxRows + 1) : InRange(selectables, p[1], p[2])}

\* The rectangle the last render gave the item at index position p
ItemRect(p) ==
    LET xy == selectables_to_coors(selectables, p[1], p[2])
    IN  get_chunks(state, frame_area[1])[xy[2] + 1][xy[1] + 1]

\* The click of the mouse_event in op lies in the rectangle of the item at
\* index position p
ClickOn(p) == RectHas(ItemRect(p), op.args[1], op.args[2])

\* The index position the cursor was at when the operation in op was called
BeforePos == <<before.x, before.y>>

\* No hook the operation in op invoked has rejected
NoReject == \A k \in 1..Len(calls) : calls[k].result

\* C22: after a render, a mouse click inside the rectangle of the item the
\* cursor hovers (Hover, not Selected) changes the cursor to Selected at the
\* same index position (the item's select hook accepting); a click that lies
\* in no selectable item's rectangle sets the cursor to None, whatever it was.
C22_ClickPromotesHover ==
    op.name = "mouse_event" /\ frame_area # None /\ NoReject =>
        /\ /\ before.kind = "Hover"
           /\ BeforePos \in IndexPositions
           /\ ClickOn(BeforePos)
           => cursor = Selected(before.x, before.y)
        /\ (\A p \in IndexPositions : ~ClickOn(p)) => cursor = CNone

\* C23: a mouse click inside the rectangle of the Selected item invokes that
\* item's mouse_event hook once with (col - rect.x, row - rect.y, col, row),
\* both relative coordinates non-negative and below the rectangle's width and
\* height; mouse_event returns the hook's result and the cursor is unchanged.
C23_ClickForwardedToSelected ==
    /\ op.name = "mouse_event"
    /\ frame_area # None
    /\ before.kind = "Selected"
    /\ BeforePos \in IndexPositions
    /\ ClickOn(BeforePos)
    => LET xy == selectables_to_coors(selectables, before.x, before.y)
           r == ItemRect(BeforePos)
           col == op.args[1]
           row == op.args[2]
       IN  /\ Len(calls) = 1
           /\ calls[1].hook = "mouse_event"
           /\ <<calls[1].x, calls[1].y>> = xy
           /\ calls[1].args = <<col - r.x, row - r.y, col, row>>
           /\ col - r.x \in 0..(r.width - 1)
           /\ row - r.y \in 0..(r.height - 1)
           /\ ret.tag = (IF calls[1].result THEN "true" ELSE "false")
           /\ cursor = before

\* C24: a mouse click inside the rectangle of a selectable item that is
\* neither the Selected nor the hovered one ends with the cursor Hover at that
\* item's index position and returns true; the item clicked is not Selected.
C24_ClickHoversOther ==
    op.name = "mouse_event" /\ frame_area # None =>
        \A p \in IndexPositions :
            ClickOn(p) /\ (before.kind = "None" \/ p # BeforePos) =>
                cursor = Hover(p[1], p[2]) /\ ret.tag = "true"

\* C25: Framework::select() / deselect() first invoke the select / deselect
\* hook of the hovered / selected item; the cursor goes Hover -> Selected /
\* Selected -> Hover only if the hook accepts; if it rejects, the cursor is
\* unchanged and the call still returns success.
C25_HookDecides ==
    /\ op.name = "select" /\ before.kind = "Hover" /\ BeforePos \in IndexPositions =>
           /\ Len(calls) = 1
           /\ calls[1].hook = "select"
           /\ <<calls[1].x, calls[1].y>> = selectables_to_coors(selectables, before.x, before.y)
           /\ ret.tag = "Ok"
           /\ cursor = IF calls[1].result THEN Selected(before.x, before.y) ELSE before
    /\ op.name = "deselect" /\ before.kind = "Selected" /\ BeforePos \in IndexPositions =>
           /\ Len(calls) = 1
           /\ calls[1].hook = "deselect"
           /\ <<calls[1].x, calls[1].y>> = selectables_to_coors(selectables, before.x, before.y)
           /\ ret.tag = "Ok"
           /\ cursor = IF calls[1].result THEN Hover(before.x, before.y) ELSE before

\* deselect() has returned success with the item's hook rejecting: the cursor
\* is still Selected.
C25_Witness ==
    /\ op.name = "deselect"
    /\ ret.tag = "Ok"
    /\ Len(calls) = 1
    /\ ~calls[1].result
    /\ cursor = Selected(1, 0)

\* C26: an error returned by an item's load_item or key_event hook is
\* returned to the caller of load, load_only or key_input; load stops at the
\* first failing item in row-major order and does not load the later items;
\* load_only_multiple invokes load_item for every listed location, in list
\* order, and discards every hook error.
C26_HookErrors ==
    [][ret'.tag # "Panic" =>
           /\ op'.name = "load" =>
                  LET ps == grid_positions(state, 0, 0)
                      n == Len(calls')
                  IN  /\ n <= Len(ps)
                      /\ \A k \in 1..n :
                             /\ calls'[k].hook = "load_item"
                             /\ <<calls'[k].x, calls'[k].y>> = ps[k]
                             /\ k < n => calls'[k].result
                      /\ IF n > 0 /\ ~calls'[n].result
                         THEN ret'.tag = "HookError"
                         ELSE ret'.tag = "Ok" /\ n = Len(ps)
                      /\ \A k \in (n + 1)..Len(ps) :
                             get(state', ps[k][1], ps[k][2]) = get(state, ps[k][1], ps[k][2])
           /\ op'.name = "load_only" =>
                  /\ Len(calls') = 1
                  /\ calls'[1].hook = "load_item"
                  /\ <<calls'[1].x, calls'[1].y>> = op'.args
                  /\ ret'.tag = (IF calls'[1].result THEN "Ok" ELSE "HookError")
           /\ op'.name = "key_input" /\ calls' # <<>> =>
                  ret'.tag = (IF calls'[1].result THEN "Ok" ELSE "HookError")
           /\ op'.name = "load_only_multiple" =>
                  LET locations == op'.args[1]
                  IN  /\ Len(calls') = Len(locations)
                      /\ \A k \in 1..Len(locations) :
                             /\ calls'[k].hook = "load_item"
                             /\ <<calls'[k].x, calls'[k].y>> = locations[k]
                      /\ ret'.tag = "Ok"]_vars

\* load() has stopped at the failing second of three items.
C26_Witness ==
    /\ op.name = "load"
    /\ ret.tag = "HookError"
    /\ Len(calls) = 2
    /\ Len(grid_positions(state, 0, 0)) = 3

\* C27: the item callbacks that render, key_input, mouse_event, select,
\* deselect and load dispatch run one after the other, and a callback changes
\* nothing of the grid but the item it is addressed to: the number of rows,
\* the number of items of each row, their layout and every item no callback
\* was addressed to are the same after the operation as before it.
C27_CallbackFrame ==
    [][op'.name \in {"render", "key_input", "mouse_event", "select", "deselect", "load"} =>
           /\ Len(state') = Len(state)
           /\ \A i \in 1..Len(state) :
                  /\ Len(state'[i].items) = Len(state[i].items)
                  /\ state'[i].centered = state[i].centered
                  /\ state'[i].height = state[i].height
                  /\ \A j \in 1..Len(state[i].items) :
                         /\ state'[i].items[j].width = state[i].items[j].width
                         /\ state'[i].items[j] # state[i].items[j] =>
                                \E k \in 1..Len(calls') :
                                    calls'[k].x = j - 1 /\ calls'[k].y = i - 1]_vars

\* A select hook has changed its own item, the first of a row of two.
C27_Witness ==
    /\ op.name = "select"
    /\ Len(calls) = 1
    /\ <<calls[1].x, calls[1].y>> = <<0, 0>>
    /\ Len(state[1].items) = 2
    /\ get(state, 0, 0).val = 1
    /\ get(state, 1, 0).val = 0

\* C28: no public operation (move, select, deselect, key_input, mouse_event,
\* render, load, history operations) aborts with an index out of range or an
\* arithmetic underflow in a state reachable from Framework::new through those
\* operations and set_state.
C28_NoAbort == ret.tag # "Panic"

\* C29: when the area is too small for the declared sizes (a centered row
\* whose item widths sum to more than the area width), get_chunks fails with a
\* length error; it neither aborts nor goes on with a wrapped-around length.
C29_LengthError ==
    /\ op.name \in {"render", "mouse_event"}
    /\ frame_area # None
    /\ get_chunks_underflows(state, frame_area[1])
    => ret.tag = "LengthError"

\* The declared widths of the items of a row, summed
RowWidth(row) == SumSeq(widths(row))

\* C30: for a centered row whose item widths sum to S <= W (W the available
\* width) the leading padding is floor((W - S) / 2), the items follow it one
\* after the other, and the trailing padding W - S - leading differs from the
\* leading one by at most one cell; a row that is not centered has leading
\* padding 0.
C30_Centering ==
    op.name = "render" /\ ret.tag = "Ok" =>
        LET area == frame_area[1]
            W == area.width
            chunks == get_chunks(state, area)
        IN  \A i \in 1..Len(state) :
                LET S == RowWidth(state[i])
                    lead == IF state[i].centered THEN (W - S) \div 2 ELSE 0
                    trail == W - S - lead
                IN  S <= W =>
                        /\ begin_length(state[i], area) = lead
                        /\ state[i].centered => trail - lead \in {0, 1}
                        /\ \A j \in 1..Len(state[i].items) :
                               /\ chunks[i][j].x = area.x + lead
                                      + SumSeq(SubSeq(widths(state[i]), 1, j - 1))
                               /\ chunks[i][j].width = widths(state[i])[j]

\* render() has laid out a centered row of one one-cell item in an area four
\* cells wide that starts at column 1: one cell of padding before, two after.
C30_Witness ==
    /\ op.name = "render"
    /\ ret.tag = "Ok"
    /\ frame_area = Some(Rect(1, 0, 4, 2))
    /\ state = <<Row(<<U1>>, TRUE, 1)>>
    /\ get_chunks(state, frame_area[1])[1][1] = Rect(2, 0, 1, 1)

\* Grid::lengths has just returned from a call with constraints cs
LengthsOf == op.args[1]

\* C31: Grid::lengths(constraints, length) with n constraints fails with
\* NotEnoughLength when length < n + 1; otherwise it returns n lengths, each
\* percentage constraint p yielding floor(p * (length - n) / 100).
C31_LengthsFloor ==
    op.name = "lengths" /\ LengthsOf # <<>> =>
        LET cs == LengthsOf
            length == op.args[2]
            n == Len(cs)
        IN  IF length < n + 1 THEN ret.tag = "NotEnoughLength"
            ELSE /\ ret.tag = "Ok"
                 /\ Len(ret.val[1]) = n
                 /\ \A i \in 1..n :
                        cs[i].kind = "Percentage" =>
                            ret.val[1][i] = (cs[i].v * (length - n)) \div 100

C32_Chunks ==
    op.name = "chunks" /\ ret.tag = "Ok" /\ ~Grid_chunks_underflows(widget[1], op.args[1]) =>
        LET g == widget[1]
            area == op.args[1]
            chunks == ret.val[1]
            nr == Len(g.heights)
            nc == Len(g.widths)
        IN  /\ Len(chunks) = nr
            /\ \A r \in 1..nr : Len(chunks[r]) = nc
            /\ chunks[1][1].x = area.x + 1
            /\ chunks[1][1].y = area.y + 1
            /\ \A r \in 1..nr : \A c \in 1..nc :
                   /\ chunks[r][c].y = chunks[r][1].y
                   /\ chunks[r][c].height = chunks[r][1].height
                   /\ chunks[r][c].x = chunks[1][c].x
                   /\ chunks[r][c].width = chunks[1][c].width
                   /\ c < nc => chunks[r][c + 1].x = chunks[r][c].x + chunks[r][c].width + 1
                   /\ r < nr => chunks[r + 1][c].y = chunks[r][c].y + chunks[r][c].height + 1

\* The TextList functions that end in update()
TextListMoves ==
    {"update", "up", "down", "pageup", "pagedown", "first", "last", "set_selected"}

\* Whether the selected item of tl is one of the h - 2 visible ones
Visible(tl) ==
    /\ tl.scroll <= tl.selected
    /\ tl.selected - tl.scroll < tl.height[1] - 2

\* C33: after any successful update(), up, down, pageup, pagedown, first, last
\* or set_selected with height h >= 3 the selected item is inside the visible
\* window, scroll <= selected < scroll + (h - 2); update fails with
\* UnknownHeight when the height is unset and with NotEnoughHeight when
\* h <= 2, leaving scroll unchanged.
C33_SelectedVisible ==
    [][LET tl == widget[1]
           after == widget'[1]
       IN  /\ /\ op'.name \in TextListMoves
              /\ ret'.tag = "Ok"
              /\ after.height # None
              /\ after.height[1] >= 3
              => Visible(after)
           /\ op'.name = "update" /\ tl.height = None =>
                  ret'.tag = "UnknownHeight" /\ after.scroll = tl.scroll
           /\ op'.name = "update" /\ tl.height # None /\ tl.height[1] <= 2 =>
                  ret'.tag = "NotEnoughHeight" /\ after.scroll = tl.scroll]_vars

LastIndex(len) == Max(len - 1, 0)

\* C35: up, down, first and last never move the selection outside the list:
\* up decreases selected by one unless it is 0, down increases it by one unless
\* it is at (or past) the last index, first sets it to 0 and last to len - 1;
\* for every list, the empty one included, the call returns without aborting
\* and with selected <= max(len - 1, 0) when that held before.
C35_SelectionInList ==
    [][op'.name \in {"up", "down", "first", "last"} =>
           LET tl == widget[1]
               after == widget'[1]
           IN  /\ ret'.tag # "Panic"
               /\ tl.selected <= LastIndex(tl.len) => after.selected <= LastIndex(tl.len)
               /\ op'.name = "up" =>
                      after.selected = IF tl.selected = 0 THEN 0 ELSE tl.selected - 1
               /\ op'.name = "down" =>
                      after.selected = IF tl.selected >= LastIndex(tl.len)
                                       THEN tl.selected ELSE tl.selected + 1
               /\ op'.name = "first" => after.selected = 0
               /\ op'.name = "last" /\ tl.len > 0 => after.selected = tl.len - 1]_vars

\* The ItemInfo handed to the k-th hook of the last render or load
InfoOf(k) == IF calls[k].hook = "render" THEN calls[k].args[3] ELSE calls[k].args[1]

\* The slots whose item got hover = true or selected = true in the last call
Flagged ==
    {<<calls[k].x, calls[k].y>> : k \in {j \in 1..Len(calls) : InfoOf(j).selected \/ InfoOf(j).hover}}

\* C36: in one render or load call the ItemInfo flags are computed from the
\* cursor as it was when the call started: at most one item of the grid gets
\* hover = true or selected = true, no item gets both, the flagged item is the
\* one that cursor resolves to, and both passes of a render hand the same flags
\* to the same item, whatever a hook has written to the cursor in between.
C36_InfoSnapshot ==
    op.name \in {"render", "load"} /\ ret.tag \in {"Ok", "HookError"} =>
        LET selected == CursorState_selected(before, selectables)
            hover == CursorState_hover(before, selectables)
        IN  /\ Cardinality(Flagged) <= 1
            /\ \A k \in 1..Len(calls) :
                   /\ ~(InfoOf(k).selected /\ InfoOf(k).hover)
                   /\ InfoOf(k).selected <=> selected = Some(<<calls[k].x, calls[k].y>>)
                   /\ InfoOf(k).hover <=> hover = Some(<<calls[k].x, calls[k].y>>)
                   /\ InfoOf(k).x = calls[k].x /\ InfoOf(k).y = calls[k].y
            /\ \A k1, k2 \in 1..Len(calls) :
                   calls[k1].x = calls[k2].x /\ calls[k1].y = calls[k2].y =>
                       /\ InfoOf(k1).selected = InfoOf(k2).selected
                       /\ InfoOf(k1).hover = InfoOf(k2).hover

\* render() started with an item selected and a hook has left the cursor None:
\* both passes still told that item, and no other, that it is selected.
C36_Witness ==
    /\ op.name = "render"
    /\ ret.tag = "Ok"
    /\ before.kind = "Selected"
    /\ cursor = CNone
    /\ Flagged # {}
    /\ \E k \in 1..Len(calls) : InfoOf(k).selected /\ calls[k].args[2]

\* The history operations of Framework
HistoryOps ==
    {"push_history", "pop_history", "clear_history", "revert_last_history", "revert_history"}

\* C37: push_history, pop_history, clear_history, revert_last_history and
\* revert_history leave the global tier of the store and the recorded frame
\* area unchanged; push_history, pop_history and clear_history also leave the
\* grid, the selectables, the cursor and the per-state tier unchanged.
C37_HistoryFrame ==
    [][op'.name \in HistoryOps =>
           /\ data'.global = data.global
           /\ frame_area' = frame_area
           /\ op'.name \in {"push_history", "pop_history", "clear_history"} =>
                  UNCHANGED <<state, selectables, cursor>> /\ data'.state = data.state]_vars

\* revert_last_history has restored a per-state tier of 0 while the global
\* tier, written after the push, is 1 and a frame area is recorded.
C37_Witness ==
    /\ op.name = "revert_last_history"
    /\ ret.tag = "Ok"
    /\ data = [global |-> 1, state |-> 0]
    /\ frame_area # None

\* The deselect hooks the operation in op invoked
DeselectCalls == {k \in 1..Len(calls) : calls[k].hook = "deselect"}

\* The click of the mouse_event in op lies in the rectangle of no selectable
\* item, or of one at another index position than the cursor's
ClickElsewhere(p) ==
    \/ p \in IndexPositions /\ ClickOn(p) /\ (before.kind = "None" \/ p # BeforePos)
    \/ p = <<>> /\ \A q \in IndexPositions : ~ClickOn(q)

\* C38: when the cursor is Selected at item A and a mouse click lands on
\* another selectable item or outside every selectable rectangle, A's deselect
\* hook is invoked exactly once and, whatever it returns, the cursor ends Hover
\* at the clicked item, or None for an outside click; when the cursor is None
\* or Hover such a click invokes no deselect hook.
C38_ClickAwayDeselects ==
    op.name = "mouse_event" /\ frame_area # None =>
        \A p \in IndexPositions \cup {<<>>} :
            ClickElsewhere(p) =>
                /\ before.kind = "Selected" /\ BeforePos \in IndexPositions =>
                       /\ Cardinality(DeselectCalls) = 1
                       /\ \A k \in DeselectCalls :
                              <<calls[k].x, calls[k].y>> =
                                  selectables_to_coors(selectables, before.x, before.y)
                       /\ cursor = IF p = <<>> THEN CNone ELSE Hover(p[1], p[2])
                /\ before.kind \in {"None", "Hover"} => DeselectCalls = {}

\* The cursor after the moves dirs, one after the other, from cursor c
RECURSIVE Moves(_, _, _)
Moves(c, dirs, sel) ==
    IF dirs = <<>> THEN c
    ELSE Moves(CursorState_move(c, Head(dirs), sel).cursor, Tail(dirs), sel)

Repeat(d, n) == [i \in 1..n |-> d]

\* Up until row 0, Down r times, Left until column 0, Right c times
Route(p) ==
    Repeat("Up", MaxRows + 1) \o Repeat("Down", p[2])
        \o Repeat("Left", MaxCols + 1) \o Repeat("Right", p[1])

\* C39: on a non-empty selectables index, from any cursor None or Hover and
\* for every index position (c, r), a finite sequence of move calls ends with
\* the cursor Hover(c, r): Up until row 0, Down r times, Left until column 0,
\* Right c times.
C39_EveryItemReachable ==
    cursor.kind # "Selected" /\ selectables # <<>> =>
        \A p \in IndexPositions : Moves(cursor, Route(p), selectables) = Hover(p[1], p[2])

\* A move has left the cursor on the first item of a two-row index whose
\* second row has two positions; (1, 1) is to be reached from there.
C39_Witness ==
    /\ op.name = "move"
    /\ cursor = Hover(0, 0)
    /\ Len(selectables) = 2
    /\ Len(selectables[2]) = 2
    /\ Moves(cursor, <<"Down", "Right">>, selectables) = Hover(1, 1)

====
